---- MODULE Spec2Model ----
(***************************************************************************)
(* asynccachedview: the identity map / cache (Cache), its per-key locks,   *)
(* the pickler that reduces entities to identities and back, and the       *)
(* entities of the test-suite (a parent "Post" whose constructor           *)
(* force-sets its "comments", children "Comment" whose "post" attribute    *)
(* obtains the parent), run by asyncio tasks: one task runs at a time and  *)
(* gives up control only at an await that really suspends (a Store call, a *)
(* Source call, a lock that is held).                                      *)
(***************************************************************************)
EXTENDS Integers, Sequences, FiniteSets, TLC

\* ------------------------------------------------------------- bounds
NTasks == 3
NChildren == 1
MaxOps == 3
MaxOpsDeep == 4
MaxOpsReopened == 2
MaxGen == 2
MaxRereads == 2

Tasks == 1..NTasks
ParentKey == 0
Children == 1..NChildren
\* a key stands for (class, identity): Post 0 is key 0, Comment n is key n
Keys == {ParentKey} \cup Children
IsParent(k) == k = ParentKey
\* what the Source lists as the comments of the post
Kids == [j \in 1..NChildren |-> j]

\* the identity of a Comment that is not the one asked for
StrayKey == NChildren + 1

\* the class of the entities of a key
ClassOf(k) == IF IsParent(k) THEN "Post" ELSE "Comment"

\* the association of an entity that a Cache object other than this one gave out
OtherCache == MaxGen + 1

NoBlob == <<-1>>
NoVal == <<0>>
LockIds == {"ob", "ca", "cal"} \X Keys

VARIABLES
  cur,        \* the task that is running (0: the event loop picks the next one)
  stack,      \* per task: its call stack of coroutine frames
  okey,       \* heap: the key (class, identity) of every object constructed
  assoc,      \* heap: the object's _cache (0: None, else the cache's generation)
  id_map,     \* Cache.id_map: key -> object (0: no entry)
  field_map,  \* Cache.field_map: key -> value of the key's awaitable property
  locks,      \* Cache._locks: lock id -> holder (0: free)
  db_ent,     \* Store: keys with an entity record
  db_attr,    \* Store: AttrCacheRecord.data per key (NoBlob: no record)
  online,     \* whether the Source answers
  gen,        \* which Cache object is open (a reopened cache is a new object)
  nops,       \* top-level calls started, and calls made to fail, so far
  budget,     \* how many top-level calls the first cache takes
  srcCalls,   \* history: Source constructor calls per key made by this cache
  srcFails,   \* history: how many of them raised
  compCalls,  \* history: computations of the key's awaitable property
  compDone,   \* history: how many reads computed the value and returned it
  forced,     \* history: per key, the values (as identities) that completed
              \* cache_attribute calls have set
  handed,     \* history: objects the user holds, per key: those this cache
              \* returned and those the user made and passed to it
  obtained,   \* history: objects obtain calls returned to the user, per key
  raced,      \* history: keys for which two obtain calls that overlapped in
              \* time returned different objects
  readVals,   \* history: values returned by reads of the key's property
  reads,      \* history: how many reads of the key's property returned
  racedReads, \* history: keys for which two reads that overlapped in time
              \* returned different values
  late,       \* history: the entities the user made that a cache(e) call of
              \* the user has registered and returned
  nc_instance,\* NoCache._instance (0: None, else the number of the object)
  ncMade,     \* history: how many NoCache objects were constructed
  ncRet,      \* history: the NoCache objects that NoCache() has returned
  ncCached,   \* history: the entities that were passed to NoCache.cache
  c_phase,    \* one attribute read, step by step: where it is
  c_mode,     \* ... what answers it: "compute", "store" or "mem"
  c_val,      \* ... the value its computation returns
  c_okey,     \* ... the heap: the identity of every entity object
  c_id_map,   \* ... Cache.id_map: identity -> object (0: no entry)
  c_field,    \* ... Cache.field_map's entry of the attribute
  c_db,       \* ... the AttrCacheRecord.data in the Store (<<>>: no record)
  c_bytes,    \* ... the pickle stream that is written or read
  c_work,     \* ... the pickler's pending saves and opcodes
  c_memo,     \* ... the pickler's memo: container -> index (0: not in it)
  c_coll,     \* ... collected: the entities met, in order
  c_i,        \* ... the position of the loop over collected
  c_pos,      \* ... the unpickler's position in the stream
  c_stack,    \* ... the unpickler's stack
  c_dmemo,    \* ... the unpickler's memo
  c_nodes,    \* ... the containers the unpickler has built
  c_res,      \* ... what the read returned
  c_err,      \* ... the exception the read raised ("": none)
  c_runs,     \* ... how many more reads followed the first
  prevVals,   \* history: values (as identities) read under earlier caches
  prevSet,    \* history: values (as identities) that earlier caches returned
              \* from a read or were given by cache_attribute, per key
  prevEnt,    \* history: keys of the entities that earlier caches returned from
              \* obtain or inside such a value
  d_tables,   \* Database: the classes whose table exists
  d_rows,     \* Database: per class, the rows <<identity, other fields>>
  d_task,     \* Database: per task, the store or retrieve call it is in
  d_calls,    \* Database: calls started so far
  d_faults,   \* Database: statements made to fail so far
  d_puts,     \* history: store calls that returned, per entity
  d_ev,       \* Database: the call that returned or raised in the last step
  df_fields,  \* dataclass(): the names of the fields of the decorated class
  df_identity,\* dataclass(): the identity argument, a tuple of names
  df_res,     \* dataclass(): "" before the call, then what it gave
  w_data,     \* WeakLockDict: key -> the lock of its entry (0: no entry)
  w_ref,      \* WeakLockDict: per task, the lock it holds or waits on (0: none)
  w_made,     \* WeakLockDict: locks created so far (they are 1..w_made)
  w_keys,     \* history: per lock, the keys whose lookups returned it
  w_ev,       \* WeakLockDict: the lookup made in the last step
  w_key,      \* per task, the key it looked up ("": none)
  w_in,       \* the tasks inside their `async with` block: they hold the lock
  r_ann,      \* awaitable property: its declared return annotation
  r_ev,       \* awaitable property: what the last step did with it
  ev          \* the call that returned or raised in the last step

heap == <<okey, assoc>>
mem == <<id_map, field_map>>
db == <<db_ent, db_attr>>
env == <<online, gen, nops, budget>>
histSrc == <<srcCalls, srcFails>>
histComp == <<compCalls, compDone>>
prev == <<prevVals, prevSet, prevEnt>>
histCnt == <<srcCalls, srcFails, compCalls, compDone, forced, prev>>
histRet == <<handed, obtained, raced, readVals, reads, racedReads, late>>
hist == <<histCnt, histRet>>
nc == <<nc_instance, ncMade, ncRet, ncCached>>
cdc == <<c_phase, c_mode, c_val, c_okey, c_id_map, c_field, c_db, c_bytes,
         c_work, c_memo, c_coll, c_i, c_pos, c_stack, c_dmemo, c_nodes, c_res,
         c_err, c_runs>>
dbs == <<d_tables, d_rows, d_task, d_calls, d_faults, d_puts, d_ev>>
dfn == <<df_fields, df_identity, df_res>>
wld == <<w_data, w_ref, w_made, w_keys, w_ev, w_key, w_in>>
rst == <<r_ann, r_ev>>
ext == <<dbs, dfn, wld, rst>>
vars == <<cur, stack, okey, assoc, id_map, field_map, locks, db_ent, db_attr,
          online, gen, nops, budget, srcCalls, srcFails, compCalls, compDone,
          forced, handed, obtained, raced, readVals, reads, racedReads, late,
          prevVals, prevSet, prevEnt, nc_instance, ncMade, ncRet, ncCached,
          c_phase, c_mode, c_val, c_okey, c_id_map, c_field, c_db, c_bytes,
          c_work, c_memo, c_coll, c_i, c_pos, c_stack, c_dmemo, c_nodes, c_res,
          c_err, c_runs, d_tables, d_rows, d_task, d_calls, d_faults, d_puts,
          d_ev, df_fields, df_identity, df_res, w_data, w_ref, w_made, w_keys,
          w_ev, w_key, w_in, r_ann, r_ev, ev>>

\* ------------------------------------------------------------- helpers
Range(s) == {s[j] : j \in DOMAIN s}
Top(t) == stack[t][Len(stack[t])]
\* how many top-level calls the open cache takes: reads of an awaitable
\* property, and calls of every other kind
OpsAllowed == IF gen = 1 THEN budget ELSE MaxOpsReopened
CallsAllowed == IF gen = 1 THEN MaxOps ELSE MaxOpsReopened

\* a new call is run by a task that is idle; tasks are interchangeable, so it
\* is the first idle one
Idle(t) ==
  /\ stack[t] = <<>>
  /\ \A u \in Tasks : u < t => stack[u] # <<>>

Running(t, op, pc) ==
  /\ stack[t] # <<>>
  /\ Top(t).op = op
  /\ Top(t).pc = pc

Frame(op, pc, key, obj, data) ==
  [op |-> op, pc |-> pc, key |-> key, obj |-> obj, data |-> data,
   coll |-> <<>>, i |-> 1, found |-> FALSE, ret |-> <<>>, trail |-> <<>>,
   seen |-> {}, pre |-> 0, prior |-> 0, val |-> data, reg |-> <<>>]

NoEv == [kind |-> "none", task |-> 0, key |-> 0, arg |-> 0, ret |-> <<>>,
         trail |-> <<>>, pre |-> 0, prior |-> 0, err |-> ""]

WithTop(t, f) == [stack EXCEPT ![t] = [@ EXCEPT ![Len(@)] = f]]
Call(t, f, g) == [stack EXCEPT ![t] = Append([@ EXCEPT ![Len(@)] = f], g)]
Popped(t, r) ==
  LET s == stack[t]
      n == Len(s)
  IN  [stack EXCEPT ![t] =
         IF n = 1 THEN <<>>
         ELSE [j \in 1..(n - 1) |->
                 IF j = n - 1 THEN [s[j] EXCEPT !.ret = r] ELSE s[j]]]

\* a value of entities, by the (class, identity) of each
IdentitiesOf(v) == [j \in 1..Len(v) |-> okey[v[j]]]

\* the objects of r, filed under their keys
Handed(h, r) == [q \in Keys |-> h[q] \cup {o \in Range(r) : okey'[o] = q}]

\* a frame returns r to its caller; a top-level call returns to the user
Finish(t, kind, k, arg, r, trail) ==
  /\ stack' = Popped(t, r)
  /\ UNCHANGED <<obtained, raced, readVals, reads, racedReads>>
  /\ late' = IF Len(stack[t]) = 1 /\ kind = "cache" /\ trail = <<"miss">>
               THEN late \cup {arg}
               ELSE late
  /\ IF Len(stack[t]) = 1
       THEN /\ cur' = 0
            /\ ev' = [kind |-> kind, task |-> t, key |-> k, arg |-> arg,
                      ret |-> r, trail |-> trail, pre |-> Top(t).pre,
                      prior |-> 0, err |-> ""]
            /\ handed' = Handed(handed, r)
       ELSE /\ cur' = t
            /\ ev' = NoEv
            /\ UNCHANGED handed

\* a call op(k) returns x: every op(k) call of another task that is still in
\* flight has seen it return
SeenBy(st, op, k, x) ==
  [j \in DOMAIN st |->
     IF st[j].op = op /\ st[j].key = k
       THEN [st[j] EXCEPT !.seen = @ \cup {x}]
       ELSE st[j]]

ObtainFinish(t, k, x, trail) ==
  /\ stack' = [u \in Tasks |->
                 IF u = t THEN Popped(t, <<x>>)[t]
                 ELSE SeenBy(stack[u], "obtain", k, x)]
  /\ raced' = IF Top(t).seen \subseteq {x} THEN raced ELSE raced \cup {k}
  /\ UNCHANGED <<readVals, reads, racedReads, late>>
  /\ IF Len(stack[t]) = 1
       THEN /\ cur' = 0
            /\ ev' = [kind |-> "obtain", task |-> t, key |-> k, arg |-> 0,
                      ret |-> <<x>>, trail |-> trail, pre |-> Top(t).pre,
                      prior |-> 0, err |-> ""]
            /\ handed' = Handed(handed, <<x>>)
            /\ obtained' = [obtained EXCEPT ![k] = @ \cup {x}]
       ELSE /\ cur' = t
            /\ ev' = NoEv
            /\ UNCHANGED <<handed, obtained>>

\* the read of obj's property returns r to the user
ReadFinish(t, k, o, r, trail) ==
  /\ stack' = [u \in Tasks |->
                 IF u = t THEN <<>> ELSE SeenBy(stack[u], "lookup", k, r)]
  /\ readVals' = [readVals EXCEPT ![k] = @ \cup {r}]
  /\ reads' = [reads EXCEPT ![k] = @ + 1]
  /\ racedReads' = IF Top(t).seen \subseteq {r} THEN racedReads
                    ELSE racedReads \cup {k}
  /\ handed' = Handed(handed, r)
  /\ cur' = 0
  /\ ev' = [kind |-> "read", task |-> t, key |-> k, arg |-> o, ret |-> r,
            trail |-> trail, pre |-> Top(t).pre, prior |-> Top(t).prior,
            err |-> ""]
  /\ UNCHANGED <<obtained, raced, late>>

\* (a variant in which the exception leaves the locks of the task held)
RaiseHoldingLocks(t, e) ==
  /\ stack' = [stack EXCEPT ![t] = <<>>]
  /\ locks' = locks
  /\ cur' = 0
  /\ ev' = [kind |-> "raise", task |-> t, key |-> stack[t][1].key,
            arg |-> stack[t][1].obj, ret |-> <<>>,
            trail |-> <<stack[t][1].op>>, pre |-> stack[t][1].pre,
            prior |-> 0, err |-> e]

\* exception e is raised in task t and nobody catches it: it leaves every
\* `async with self._locks[...]` of the task, which releases the lock, and
\* reaches the user
Raise(t, e) ==
  /\ stack' = [stack EXCEPT ![t] = <<>>]
  /\ locks' = [l \in LockIds |-> IF locks[l] = t THEN 0 ELSE locks[l]]
  /\ cur' = 0
  /\ ev' = [kind |-> "raise", task |-> t, key |-> stack[t][1].key,
            arg |-> stack[t][1].obj, ret |-> <<>>,
            trail |-> <<stack[t][1].op>>, pre |-> stack[t][1].pre,
            prior |-> 0, err |-> e]

\* the obtain calls of task t that asked the Source end without returning
Unfinished(t, k) ==
  \E j \in DOMAIN stack[t] :
    /\ stack[t][j].op = "obtain"
    /\ stack[t][j].key = k
    /\ "source" \in Range(stack[t][j].trail)

\* ------------------------------------------------------------- the codec
\* (a variant whose encoding loses the last entity of the value)
pickle_losing_last(val) ==
  [data |-> [j \in 1..(Len(val) - 1) |-> okey[val[j]]],
   collected |-> SubSeq(val, 1, Len(val) - 1)]

\* pickle_and_reduce_to_identities: every entity met is replaced by its
\* (class, identity) and appended to `collected`, once per occurrence
pickle_and_reduce_to_identities(val) ==
  [data |-> [j \in 1..Len(val) |-> okey[val[j]]], collected |-> val]

\* pass 1 of unpickle_and_reconstruct_from_identities: the identities named
collect_identities(data) == data

\* Cache._obtain_mapped: the synchronous lookup of pass 2 (0: KeyError)
obtain_mapped(k) == id_map[k]

\* pass 2: every identity is replaced by the identity map's entry
reconstruct(data) == [j \in 1..Len(data) |-> obtain_mapped(data[j])]

\* ------------------------------------------------------------- the locks
\* obtain: self._locks[(desired_dataclass, *identity)]
ObtainLockKey(k) == <<"ob", k>>
\* cache_attribute: self._locks[(_cls, _id, attrname)]
CacheAttributeLockKey(k) == <<"ca", k>>
\* cached_attribute_lookup: self._locks[(obj, attrname, coroutine_func)]
LookupLockKey(k) == <<"cal", k>>

LockOf(f) ==
  IF f.op = "obtain" THEN ObtainLockKey(f.key)
  ELSE IF f.op = "cache_attribute" THEN CacheAttributeLockKey(f.key)
  ELSE LookupLockKey(f.key)

AfterLock(f) == IF f.op = "cache_attribute" THEN "pickle" ELSE "mem"

\* (a variant whose lock manager gives every caller a lock of its own)
AcquireOwnLock(t) ==
  /\ cur \in {0, t}
  /\ stack[t] # <<>>
  /\ Top(t).pc = "lock"
  /\ locks' = [locks EXCEPT ![LockOf(Top(t))] = t]
  /\ stack' = WithTop(t, [Top(t) EXCEPT !.pc = AfterLock(Top(t))])
  /\ cur' = t
  /\ ev' = NoEv
  /\ UNCHANGED <<heap, mem, db, env, cdc, ext, nc, hist>>

\* `async with self._locks[key]:` entered: the lock is free and is taken
Acquire(t) ==
  /\ cur \in {0, t}
  /\ stack[t] # <<>>
  /\ Top(t).pc = "lock"
  /\ locks[LockOf(Top(t))] = 0
  /\ locks' = [locks EXCEPT ![LockOf(Top(t))] = t]
  /\ stack' = WithTop(t, [Top(t) EXCEPT !.pc = AfterLock(Top(t))])
  /\ cur' = t
  /\ ev' = NoEv
  /\ UNCHANGED <<heap, mem, db, env, cdc, ext, nc, hist>>

\* the lock is held: the task suspends in Lock.acquire
AwaitLock(t) ==
  /\ cur = t
  /\ stack[t] # <<>>
  /\ Top(t).pc = "lock"
  /\ locks[LockOf(Top(t))] # 0
  /\ cur' = 0
  /\ ev' = NoEv
  /\ UNCHANGED <<stack, heap, mem, locks, db, env, cdc, ext, nc, hist>>

\* ------------------------------------------------------------- Cache.obtain
\* the user awaits cache.obtain(cls, *identity)
StartObtain(t, k) ==
  /\ cur = 0
  /\ Idle(t)
  /\ nops < CallsAllowed
  /\ stack' = [stack EXCEPT ![t] =
                 <<[Frame("obtain", "lock", k, 0, <<>>)
                      EXCEPT !.pre = id_map[k]]>>]
  /\ cur' = t
  /\ nops' = nops + 1
  /\ ev' = NoEv
  /\ UNCHANGED <<heap, mem, locks, db, online, gen, budget, cdc, ext, nc, hist>>

\* the identity map has the object: it is returned
ObtainMemHit(t) ==
  /\ cur = t
  /\ Running(t, "obtain", "mem")
  /\ id_map[Top(t).key] # 0
  /\ locks' = [locks EXCEPT ![ObtainLockKey(Top(t).key)] = 0]
  /\ UNCHANGED <<heap, mem, db, env, cdc, ext, nc, histCnt>>
  /\ ObtainFinish(t, Top(t).key, id_map[Top(t).key], <<"mem">>)

\* (a variant that asks the Source without asking the Store)
ObtainMemMissSkipStore(t) ==
  /\ cur = t
  /\ Running(t, "obtain", "mem")
  /\ id_map[Top(t).key] = 0
  /\ stack' = WithTop(t, [Top(t) EXCEPT !.pc = "get_done", !.found = FALSE,
                                         !.trail = <<"mem">>])
  /\ cur' = 0
  /\ ev' = NoEv
  /\ UNCHANGED <<heap, mem, locks, db, env, cdc, ext, nc, hist>>

\* KeyError: await self.get(desired_dataclass, *identity)
ObtainMemMiss(t) ==
  /\ cur = t
  /\ Running(t, "obtain", "mem")
  /\ id_map[Top(t).key] = 0
  /\ stack' = WithTop(t, [Top(t) EXCEPT !.pc = "get_wait",
                                         !.trail = <<"mem", "store">>])
  /\ cur' = 0
  /\ ev' = NoEv
  /\ UNCHANGED <<heap, mem, locks, db, env, cdc, ext, nc, hist>>

\* the Store runs the SELECT of an awaited get
DbGetEntity(t) ==
  /\ cur = 0
  /\ Running(t, "obtain", "get_wait")
  /\ stack' = WithTop(t, [Top(t) EXCEPT !.pc = "get_done",
                                         !.found = (Top(t).key \in db_ent)])
  /\ ev' = NoEv
  /\ UNCHANGED <<cur, heap, mem, locks, db, env, cdc, ext, nc, hist>>

\* obj._cache: the object's association cell (0: None)
_cache(o) == assoc[o]

\* DataClass._set_cache: the association cell is set (it was None)
set_cache(a, o, c) == [a EXCEPT ![o] = c]

\* (a variant whose Store hit registers the object without associating it)
ObtainStoreHitUnassociated(t) ==
  LET k == Top(t).key
      o == Len(okey) + 1
  IN  /\ cur = 0
      /\ Running(t, "obtain", "get_done")
      /\ Top(t).found
      /\ okey' = Append(okey, k)
      /\ id_map' = [id_map EXCEPT ![k] = o]
      /\ assoc' = Append(assoc, 0)
      /\ locks' = [locks EXCEPT ![ObtainLockKey(k)] = 0]
      /\ UNCHANGED <<field_map, db, env, cdc, ext, nc, histCnt>>
      /\ ObtainFinish(t, k, o, Top(t).trail)

\* the record was there: a new object is built from it, registered, associated
ObtainStoreHit(t) ==
  LET k == Top(t).key
      o == Len(okey) + 1
  IN  /\ cur = 0
      /\ Running(t, "obtain", "get_done")
      /\ Top(t).found
      /\ okey' = Append(okey, k)
      /\ id_map' = [id_map EXCEPT ![k] = o]
      /\ assoc' = set_cache(Append(assoc, 0), o, gen)
      /\ locks' = [locks EXCEPT ![ObtainLockKey(k)] = 0]
      /\ UNCHANGED <<field_map, db, env, cdc, ext, nc, histCnt>>
      /\ ObtainFinish(t, k, o, Top(t).trail)

\* RecordMissingError: the Source constructor is awaited
ObtainStoreMiss(t) ==
  /\ cur = 0
  /\ Running(t, "obtain", "get_done")
  /\ ~Top(t).found
  /\ stack' = WithTop(t, [Top(t) EXCEPT !.pc = "src_wait",
                                         !.trail = Append(@, "source")])
  /\ srcCalls' = [srcCalls EXCEPT ![Top(t).key] = @ + 1]
  /\ ev' = NoEv
  /\ UNCHANGED <<cur, heap, mem, locks, db, env, cdc, ext, nc, srcFails, histComp, forced,
                 prev, histRet>>

\* Comment.__obtain__ returns cls(...): obtain goes on to self.cache(obj)
SourceReturnChild(t) ==
  LET k == Top(t).key
      o == Len(okey) + 1
  IN  /\ cur = 0
      /\ online
      /\ Running(t, "obtain", "src_wait")
      /\ ~IsParent(k)
      /\ okey' = Append(okey, k)
      /\ assoc' = Append(assoc, 0)
      /\ stack' = Call(t, [Top(t) EXCEPT !.pc = "cached"],
                       Frame("cache", "start", k, o, <<>>))
      /\ cur' = t
      /\ ev' = NoEv
      /\ UNCHANGED <<mem, locks, db, env, cdc, ext, nc, hist>>

\* (a variant of the Source whose force-set value names the Post itself)
SourceReturnParentNamingItself(t) ==
  LET k == Top(t).key
      n == Len(okey)
      comments == [j \in 1..(Len(Kids) + 1) |-> n + j]
  IN  /\ cur = 0
      /\ online
      /\ Running(t, "obtain", "src_wait")
      /\ IsParent(k)
      /\ okey' = okey \o Kids \o <<k>>
      /\ assoc' = assoc \o [j \in 1..(Len(Kids) + 1) |-> 0]
      /\ stack' = Call(t, [Top(t) EXCEPT !.pc = "ex_ret"],
                       Frame("cache_attribute", "lock", k, 0, comments))
      /\ cur' = t
      /\ ev' = NoEv
      /\ UNCHANGED <<mem, locks, db, env, cdc, ext, nc, hist>>

\* Post.__obtain_ex__ got its answer: the comments are built and force-set
\* with cache.cache_attribute(cls, (id_,), 'comments', comments)
SourceReturnParent(t) ==
  LET k == Top(t).key
      n == Len(okey)
      comments == [j \in 1..Len(Kids) |-> n + j]
  IN  /\ cur = 0
      /\ online
      /\ Running(t, "obtain", "src_wait")
      /\ IsParent(k)
      /\ okey' = okey \o Kids
      /\ assoc' = assoc \o [j \in 1..Len(Kids) |-> 0]
      /\ stack' = Call(t, [Top(t) EXCEPT !.pc = "ex_ret"],
                       Frame("cache_attribute", "lock", k, 0, comments))
      /\ cur' = t
      /\ ev' = NoEv
      /\ UNCHANGED <<mem, locks, db, env, cdc, ext, nc, hist>>

\* (a variant of obtain that does not look at the object's class)
SourceReturnWrongClassAccepted(t) ==
  /\ cur = 0
  /\ online
  /\ Running(t, "obtain", "src_wait")
  /\ ~IsParent(Top(t).key)
  /\ okey' = Append(okey, ParentKey)
  /\ assoc' = Append(assoc, 0)
  /\ stack' = Call(t, [Top(t) EXCEPT !.pc = "cached"],
                   Frame("cache", "start", Top(t).key, Len(okey) + 1, <<>>))
  /\ cur' = t
  /\ ev' = NoEv
  /\ UNCHANGED <<mem, locks, db, env, cdc, ext, nc, hist>>

\* Comment.__obtain__ returns an object of another class: the asserts on the
\* object's class fail
SourceReturnWrongClass(t) ==
  /\ cur = 0
  /\ online
  /\ Running(t, "obtain", "src_wait")
  /\ ~IsParent(Top(t).key)
  /\ okey' = Append(okey, ParentKey)
  /\ assoc' = Append(assoc, 0)
  /\ Raise(t, "AssertionError")
  /\ UNCHANGED <<mem, db, env, cdc, ext, nc, hist>>

\* Comment.__obtain__ returns a Comment with another id: obtain goes on to
\* self.cache(obj, identity=identity) with the identity that was asked for
SourceReturnWrongIdentity(t) ==
  LET k == Top(t).key
      o == Len(okey) + 1
  IN  /\ cur = 0
      /\ online
      /\ Running(t, "obtain", "src_wait")
      /\ ~IsParent(k)
      /\ okey' = Append(okey, StrayKey)
      /\ assoc' = Append(assoc, 0)
      /\ stack' = Call(t, [Top(t) EXCEPT !.pc = "cached"],
                       Frame("cache", "start", k, o, <<>>))
      /\ cur' = t
      /\ ev' = NoEv
      /\ UNCHANGED <<mem, locks, db, env, cdc, ext, nc, hist>>

\* (a variant in which the cache wraps the Source's error in one of its own)
SourceFailWrapped(t) ==
  /\ cur = 0
  /\ ~online
  /\ stack[t] # <<>>
  /\ Top(t).pc \in {"src_wait", "comp_wait"}
  /\ srcFails' = [k \in Keys |->
                    IF Unfinished(t, k) THEN srcFails[k] + 1 ELSE srcFails[k]]
  /\ Raise(t, "CacheError")
  /\ UNCHANGED <<heap, mem, db, env, cdc, ext, nc, srcCalls, histComp, forced, prev,
                 histRet>>

\* the Source is unreachable: the awaited request raises
SourceFail(t) ==
  /\ cur = 0
  /\ ~online
  /\ stack[t] # <<>>
  /\ Top(t).pc \in {"src_wait", "comp_wait"}
  /\ srcFails' = [k \in Keys |->
                    IF Unfinished(t, k) THEN srcFails[k] + 1 ELSE srcFails[k]]
  /\ Raise(t, "SourceError")
  /\ UNCHANGED <<heap, mem, db, env, cdc, ext, nc, srcCalls, histComp, forced, prev,
                 histRet>>

\* Post.__obtain_ex__ returns cls(id_, text): obtain goes on to self.cache(obj)
ObtainExReturn(t) ==
  LET k == Top(t).key
      o == Len(okey) + 1
  IN  /\ cur = t
      /\ Running(t, "obtain", "ex_ret")
      /\ okey' = Append(okey, k)
      /\ assoc' = Append(assoc, 0)
      /\ stack' = Call(t, [Top(t) EXCEPT !.pc = "cached"],
                       Frame("cache", "start", k, o, <<>>))
      /\ cur' = t
      /\ ev' = NoEv
      /\ UNCHANGED <<mem, locks, db, env, cdc, ext, nc, hist>>

\* obj = await self.cache(obj, identity=identity); return obj
ObtainReturn(t) ==
  /\ cur = t
  /\ Running(t, "obtain", "cached")
  /\ locks' = [locks EXCEPT ![ObtainLockKey(Top(t).key)] = 0]
  /\ UNCHANGED <<heap, mem, db, env, cdc, ext, nc, histCnt>>
  /\ ObtainFinish(t, Top(t).key, Top(t).ret[1], Top(t).trail)

\* ------------------------------------------------------------- Cache.cache
\* the user awaits cache.cache(obj) on an entity that has no cache (c = 0) or
\* that another cache gave out (c = OtherCache)
StartCache(t, k, c) ==
  LET o == Len(okey) + 1
  IN  /\ cur = 0
      /\ Idle(t)
      /\ nops < CallsAllowed
      /\ okey' = Append(okey, k)
      /\ assoc' = Append(assoc, c)
      /\ stack' = [stack EXCEPT ![t] = <<Frame("cache", "start", k, o, <<>>)>>]
      /\ handed' = Handed(handed, <<o>>)
      /\ cur' = t
      /\ nops' = nops + 1
      /\ ev' = NoEv
      /\ UNCHANGED <<mem, locks, db, online, gen, budget, cdc, ext, nc, histCnt, obtained,
                     raced, readVals, reads, racedReads, late>>

\* the user awaits cache.cache(obj) on an entity it holds already
StartCacheHeld(t, o) ==
  /\ cur = 0
  /\ Idle(t)
  /\ nops < CallsAllowed
  /\ o \in UNION {handed[k] : k \in Keys}
  /\ stack' = [stack EXCEPT ![t] =
                 <<[Frame("cache", "start", okey[o], o, <<>>)
                      EXCEPT !.pre = IF o \in late THEN 1 ELSE 0]>>]
  /\ cur' = t
  /\ nops' = nops + 1
  /\ ev' = NoEv
  /\ UNCHANGED <<heap, mem, locks, db, online, gen, budget, cdc, ext, nc, hist>>

\* the user awaits cache.cache_attribute(Post, (id,), 'comments', value) with
\* a value of its own: the first n comments of the Post, as new objects
StartCacheAttribute(t, k, n) ==
  LET m == Len(okey)
      value == [j \in 1..n |-> m + j]
  IN  /\ cur = 0
      /\ Idle(t)
      /\ nops < CallsAllowed
      /\ IsParent(k)
      /\ okey' = okey \o SubSeq(Kids, 1, n)
      /\ assoc' = assoc \o [j \in 1..n |-> 0]
      /\ stack' = [stack EXCEPT ![t] =
                     <<Frame("cache_attribute", "lock", k, 0, value)>>]
      /\ cur' = t
      /\ nops' = nops + 1
      /\ ev' = NoEv
      /\ UNCHANGED <<mem, locks, db, online, gen, budget, cdc, ext, nc, hist>>

\* (a variant in which a hit registers the object that was passed)
CacheHitReplacing(t) ==
  /\ cur = t
  /\ Running(t, "cache", "start")
  /\ id_map[Top(t).key] # 0
  /\ id_map' = [id_map EXCEPT ![Top(t).key] = Top(t).obj]
  /\ UNCHANGED <<heap, field_map, locks, db, env, cdc, ext, nc, histCnt>>
  /\ Finish(t, "cache", Top(t).key, Top(t).obj, <<Top(t).obj>>, <<"hit">>)

\* try: return self._id_map_by_class(_cls)[identity]
CacheHit(t) ==
  /\ cur = t
  /\ Running(t, "cache", "start")
  /\ id_map[Top(t).key] # 0
  /\ UNCHANGED <<heap, mem, locks, db, env, cdc, ext, nc, histCnt>>
  /\ Finish(t, "cache", Top(t).key, Top(t).obj, <<id_map[Top(t).key]>>,
            <<"hit">>)

\* (a variant that registers the object before it is persisted)
CacheMissRegisterFirst(t) ==
  /\ cur = t
  /\ Running(t, "cache", "start")
  /\ id_map[Top(t).key] = 0
  /\ id_map' = [id_map EXCEPT ![Top(t).key] = Top(t).obj]
  /\ stack' = WithTop(t, [Top(t) EXCEPT !.pc = "put_wait"])
  /\ cur' = 0
  /\ ev' = NoEv
  /\ UNCHANGED <<heap, field_map, locks, db, env, cdc, ext, nc, hist>>

\* except KeyError: await self.put(obj)
CacheMiss(t) ==
  /\ cur = t
  /\ Running(t, "cache", "start")
  /\ id_map[Top(t).key] = 0
  /\ stack' = WithTop(t, [Top(t) EXCEPT !.pc = "put_wait"])
  /\ cur' = 0
  /\ ev' = NoEv
  /\ UNCHANGED <<heap, mem, locks, db, env, cdc, ext, nc, hist>>

\* (a variant in which the entity never reaches the Store)
DbPutEntityLost(t) ==
  /\ cur = 0
  /\ Running(t, "cache", "put_wait")
  /\ stack' = WithTop(t, [Top(t) EXCEPT !.pc = "put_done"])
  /\ ev' = NoEv
  /\ UNCHANGED <<cur, heap, mem, locks, db, env, cdc, ext, nc, hist>>

\* the Store runs the upsert of an awaited put(obj): the record is keyed by
\* the object's own identity fields
DbPutEntity(t) ==
  /\ cur = 0
  /\ Running(t, "cache", "put_wait")
  /\ db_ent' = db_ent \cup {okey[Top(t).obj]}
  /\ stack' = WithTop(t, [Top(t) EXCEPT !.pc = "put_done"])
  /\ ev' = NoEv
  /\ UNCHANGED <<cur, heap, mem, locks, db_attr, env, cdc, ext, nc, hist>>

\* _set_cache as in core.py: an object that has a cache keeps it, silently
CacheRegisterIgnoring(t) ==
  LET k == Top(t).key
      o == Top(t).obj
  IN  /\ cur = 0
      /\ Running(t, "cache", "put_done")
      /\ id_map' = [id_map EXCEPT ![k] = o]
      /\ UNCHANGED <<okey, field_map, db, env, cdc, ext, nc, histCnt, locks>>
      /\ assoc' = IF _cache(o) = 0 THEN set_cache(assoc, o, gen) ELSE assoc
      /\ Finish(t, "cache", k, o, <<o>>, <<"miss">>)

\* (a variant that looks at the object's cache before it registers it)
CacheRegisterAssertingFirst(t) ==
  LET k == Top(t).key
      o == Top(t).obj
  IN  /\ cur = 0
      /\ Running(t, "cache", "put_done")
      /\ UNCHANGED <<okey, field_map, db, env, cdc, ext, nc, histCnt>>
      /\ IF _cache(o) = 0
           THEN /\ id_map' = [id_map EXCEPT ![k] = o]
                /\ assoc' = set_cache(assoc, o, gen)
                /\ UNCHANGED locks
                /\ Finish(t, "cache", k, o, <<o>>, <<"miss">>)
           ELSE /\ Raise(t, "AssertionError")
                /\ UNCHANGED <<id_map, assoc, histRet>>

\* self.id_map[_cls][identity] = obj; obj._set_cache(self); return obj
\* (_set_cache asserts that the object has no cache yet: AssertionError)
CacheRegister(t) ==
  LET k == Top(t).key
      o == Top(t).obj
  IN  /\ cur = 0
      /\ Running(t, "cache", "put_done")
      /\ id_map' = [id_map EXCEPT ![k] = o]
      /\ UNCHANGED <<okey, field_map, db, env, cdc, ext, nc, histCnt>>
      /\ IF _cache(o) = 0
           THEN /\ assoc' = set_cache(assoc, o, gen)
                /\ UNCHANGED locks
                /\ Finish(t, "cache", k, o, <<o>>, <<"miss">>)
           ELSE /\ Raise(t, "AssertionError")
                /\ UNCHANGED <<assoc, histRet>>

\* ------------------------------------------- the tail that cache_attribute
\* and cached_attribute_lookup share: pickle, associate, store, unpickle
IsAttrOp(f) == f.op \in {"cache_attribute", "lookup"}

\* history: what the identity map holds for each entity of val (0: nothing)
registered(val) == [j \in DOMAIN val |-> id_map[okey[val[j]]]]

\* data, collected = pickle_and_reduce_to_identities(res)
Pickle(t) ==
  LET p == pickle_and_reduce_to_identities(Top(t).data)
  IN  /\ cur = t
      /\ stack[t] # <<>>
      /\ IsAttrOp(Top(t))
      /\ Top(t).pc = "pickle"
      /\ stack' = WithTop(t, [Top(t) EXCEPT !.pc = "loop", !.data = p.data,
                                             !.coll = p.collected, !.i = 1,
                                             !.reg = registered(Top(t).data)])
      /\ ev' = NoEv
      /\ UNCHANGED <<cur, heap, mem, locks, db, env, cdc, ext, nc, hist>>

\* (a variant whose loop passes over the entities without caching them)
AssociateNextSkipping(t) ==
  LET f == Top(t)
  IN  /\ cur = t
      /\ stack[t] # <<>>
      /\ IsAttrOp(f)
      /\ f.pc = "loop"
      /\ f.i <= Len(f.coll)
      /\ stack' = WithTop(t, [f EXCEPT !.i = @ + 1])
      /\ ev' = NoEv
      /\ UNCHANGED <<cur, heap, mem, locks, db, env, cdc, ext, nc, hist>>

\* for c, i in collected: await self.cache(c, identity=i)
AssociateNext(t) ==
  LET f == Top(t)
  IN  /\ cur = t
      /\ stack[t] # <<>>
      /\ IsAttrOp(f)
      /\ f.pc = "loop"
      /\ f.i <= Len(f.coll)
      /\ stack' = Call(t, [f EXCEPT !.i = @ + 1],
                       Frame("cache", "start", okey[f.coll[f.i]], f.coll[f.i],
                             <<>>))
      /\ ev' = NoEv
      /\ UNCHANGED <<cur, heap, mem, locks, db, env, cdc, ext, nc, hist>>

\* await self.put(AttrCacheRecord(...))
AssociateDone(t) ==
  LET f == Top(t)
  IN  /\ cur = t
      /\ stack[t] # <<>>
      /\ IsAttrOp(f)
      /\ f.pc = "loop"
      /\ f.i > Len(f.coll)
      /\ stack' = WithTop(t, [f EXCEPT !.pc = "put_wait"])
      /\ cur' = 0
      /\ ev' = NoEv
      /\ UNCHANGED <<heap, mem, locks, db, env, cdc, ext, nc, hist>>

\* (a variant in which the record never reaches the Store)
DbPutAttrLost(t) ==
  /\ cur = 0
  /\ stack[t] # <<>>
  /\ IsAttrOp(Top(t))
  /\ Top(t).pc = "put_wait"
  /\ stack' = WithTop(t, [Top(t) EXCEPT !.pc = "put_done"])
  /\ ev' = NoEv
  /\ UNCHANGED <<cur, heap, mem, locks, db, env, cdc, ext, nc, hist>>

\* the Store runs the upsert of an awaited put(rec)
DbPutAttr(t) ==
  /\ cur = 0
  /\ stack[t] # <<>>
  /\ IsAttrOp(Top(t))
  /\ Top(t).pc = "put_wait"
  /\ db_attr' = [db_attr EXCEPT ![Top(t).key] = Top(t).data]
  /\ stack' = WithTop(t, [Top(t) EXCEPT !.pc = "put_done"])
  /\ ev' = NoEv
  /\ UNCHANGED <<cur, heap, mem, locks, db_ent, env, cdc, ext, nc, hist>>

\* res = await unpickle_and_reconstruct_from_identities(data, self)
Unpickle(t) ==
  /\ cur = 0
  /\ stack[t] # <<>>
  /\ IsAttrOp(Top(t))
  /\ Top(t).pc = "put_done"
  /\ stack' = Call(t, [Top(t) EXCEPT !.pc = "store"],
                   Frame("unpickle", "inter", Top(t).key, 0, Top(t).data))
  /\ cur' = t
  /\ ev' = NoEv
  /\ UNCHANGED <<heap, mem, locks, db, env, cdc, ext, nc, hist>>

\* (a variant of cache_attribute that memoizes the value it was given)
StoreMappingAsGiven(t) ==
  LET f == Top(t)
  IN  /\ cur = t
      /\ stack[t] # <<>>
      /\ IsAttrOp(f)
      /\ f.pc = "store"
      /\ field_map' = [field_map EXCEPT ![f.key] =
                       IF f.op = "cache_attribute" THEN f.val ELSE f.ret]
      /\ locks' = [locks EXCEPT ![LockOf(f)] = 0]
      /\ UNCHANGED <<heap, id_map, db, env, cdc, ext, nc, histSrc, compCalls, prev>>
      /\ compDone' = IF f.op = "lookup" /\ "compute" \in Range(f.trail)
                       THEN [compDone EXCEPT ![f.key] = @ + 1]
                       ELSE compDone
      /\ IF f.op = "lookup"
           THEN /\ ReadFinish(t, f.key, f.obj, f.ret, f.trail)
                /\ UNCHANGED forced
           ELSE /\ Finish(t, "cache_attribute", f.key, f.obj, <<>>, f.trail)
                /\ forced' = [forced EXCEPT ![f.key] =
                                        @ \cup {IdentitiesOf(f.val)}]

\* self.field_map[_cls][_id][attrname] = res, and the lock is released
StoreMapping(t) ==
  LET f == Top(t)
  IN  /\ cur = t
      /\ stack[t] # <<>>
      /\ IsAttrOp(f)
      /\ f.pc = "store"
      /\ field_map' = [field_map EXCEPT ![f.key] = f.ret]
      /\ locks' = [locks EXCEPT ![LockOf(f)] = 0]
      /\ UNCHANGED <<heap, id_map, db, env, cdc, ext, nc, histSrc, compCalls, prev>>
      /\ compDone' = IF f.op = "lookup" /\ "compute" \in Range(f.trail)
                       THEN [compDone EXCEPT ![f.key] = @ + 1]
                       ELSE compDone
      /\ IF f.op = "lookup"
           THEN /\ ReadFinish(t, f.key, f.obj, f.ret, f.trail)
                /\ UNCHANGED forced
           ELSE /\ Finish(t, "cache_attribute", f.key, f.obj, <<>>, f.trail)
                /\ forced' = [forced EXCEPT ![f.key] =
                                        @ \cup {IdentitiesOf(f.val)}]

\* ----------------------------- unpickle_and_reconstruct_from_identities
\* (a variant whose inter-pass loop obtains nothing)
UnpickleObtainNothing(t) ==
  LET f == Top(t)
      c == collect_identities(f.data)
  IN  /\ cur = t
      /\ Running(t, "unpickle", "inter")
      /\ f.i <= Len(c)
      /\ stack' = WithTop(t, [f EXCEPT !.i = @ + 1])
      /\ ev' = NoEv
      /\ UNCHANGED <<cur, heap, mem, locks, db, env, cdc, ext, nc, hist>>

\* inter-pass: for n_cls, n_id in collected: await cache.obtain(n_cls, *n_id)
UnpickleObtain(t) ==
  LET f == Top(t)
      c == collect_identities(f.data)
  IN  /\ cur = t
      /\ Running(t, "unpickle", "inter")
      /\ f.i <= Len(c)
      /\ stack' = Call(t, [f EXCEPT !.i = @ + 1],
                       Frame("obtain", "lock", c[f.i], 0, <<>>))
      /\ ev' = NoEv
      /\ UNCHANGED <<cur, heap, mem, locks, db, env, cdc, ext, nc, hist>>

\* pass 2: every identity is looked up in the identity map; an identity it
\* lacks is a KeyError out of _obtain_mapped
UnpicklePass2(t) ==
  LET f == Top(t)
  IN  /\ cur = t
      /\ Running(t, "unpickle", "inter")
      /\ f.i > Len(collect_identities(f.data))
      /\ IF \A j \in DOMAIN f.data : obtain_mapped(f.data[j]) # 0
           THEN /\ UNCHANGED <<heap, mem, locks, db, env, cdc, ext, nc, histCnt>>
                /\ Finish(t, "unpickle", f.key, 0, reconstruct(f.data), <<>>)
           ELSE /\ Raise(t, "KeyError")
                /\ UNCHANGED <<heap, mem, db, env, cdc, ext, nc, hist>>

\* ----------------------------------------- Cache.cached_attribute_lookup
\* the user awaits the awaitable property of an object the cache gave out
StartRead(t, o) ==
  /\ cur = 0
  /\ Idle(t)
  /\ nops < OpsAllowed
  /\ o \in UNION {handed[k] : k \in Keys}
  /\ _cache(o) = gen
  /\ stack' = [stack EXCEPT ![t] =
                 <<[Frame("lookup", "lock", okey[o], o, <<>>)
                      EXCEPT !.pre = IF forced[okey[o]] # {} THEN 1 ELSE 0,
                             !.prior = reads[okey[o]]]>>]
  /\ cur' = t
  /\ nops' = nops + 1
  /\ ev' = NoEv
  /\ UNCHANGED <<heap, mem, locks, db, online, gen, budget, cdc, ext, nc, hist>>

\* return field_map[_id][attrname]
LookupMemHit(t) ==
  LET f == Top(t)
  IN  /\ cur = t
      /\ Running(t, "lookup", "mem")
      /\ field_map[f.key] # NoVal
      /\ locks' = [locks EXCEPT ![LookupLockKey(f.key)] = 0]
      /\ UNCHANGED <<heap, mem, db, env, cdc, ext, nc, histCnt>>
      /\ ReadFinish(t, f.key, f.obj, field_map[f.key], <<"mem">>)

\* except KeyError: rec = await self.get(AttrCacheRecord, ...)
LookupMemMiss(t) ==
  /\ cur = t
  /\ Running(t, "lookup", "mem")
  /\ field_map[Top(t).key] = NoVal
  /\ stack' = WithTop(t, [Top(t) EXCEPT !.pc = "get_wait",
                                         !.trail = <<"mem", "store">>])
  /\ cur' = 0
  /\ ev' = NoEv
  /\ UNCHANGED <<heap, mem, locks, db, env, cdc, ext, nc, hist>>

\* the Store runs the SELECT of an awaited get(AttrCacheRecord, ...)
DbGetAttr(t) ==
  LET f == Top(t)
  IN  /\ cur = 0
      /\ Running(t, "lookup", "get_wait")
      /\ stack' = WithTop(t, [f EXCEPT !.pc = "get_done",
                                       !.found = (db_attr[f.key] # NoBlob),
                                       !.data = db_attr[f.key]])
      /\ ev' = NoEv
      /\ UNCHANGED <<cur, heap, mem, locks, db, env, cdc, ext, nc, hist>>

\* in_db: the stored blob is unpickled
LookupStoreHit(t) ==
  /\ cur = 0
  /\ Running(t, "lookup", "get_done")
  /\ Top(t).found
  /\ stack' = Call(t, [Top(t) EXCEPT !.pc = "store"],
                   Frame("unpickle", "inter", Top(t).key, 0, Top(t).data))
  /\ cur' = t
  /\ ev' = NoEv
  /\ UNCHANGED <<heap, mem, locks, db, env, cdc, ext, nc, hist>>

\* not in_db, Post.comments: res = await coroutine_func(obj) asks the Source
ComputeComments(t) ==
  LET f == Top(t)
  IN  /\ cur = 0
      /\ Running(t, "lookup", "get_done")
      /\ ~f.found
      /\ IsParent(f.key)
      /\ compCalls' = [compCalls EXCEPT ![f.key] = @ + 1]
      /\ stack' = WithTop(t, [f EXCEPT !.pc = "comp_wait",
                                       !.trail = Append(@, "compute")])
      /\ ev' = NoEv
      /\ UNCHANGED <<cur, heap, mem, locks, db, env, cdc, ext, nc, histSrc, compDone, forced,
                     prev, histRet>>

\* Post.comments returns the tuple of Comment objects it built
ComputeCommentsReturn(t) ==
  LET f == Top(t)
      n == Len(okey)
  IN  /\ cur = 0
      /\ online
      /\ Running(t, "lookup", "comp_wait")
      /\ okey' = okey \o Kids
      /\ assoc' = assoc \o [j \in 1..Len(Kids) |-> 0]
      /\ stack' = WithTop(t, [f EXCEPT !.pc = "pickle",
                                       !.data = [j \in 1..Len(Kids) |-> n + j]])
      /\ cur' = t
      /\ ev' = NoEv
      /\ UNCHANGED <<mem, locks, db, env, cdc, ext, nc, hist>>

\* not in_db, Comment.post: the computation awaits
\* _cache(self).obtain(Post, self.post_id)
ComputePost(t) ==
  LET f == Top(t)
  IN  /\ cur = 0
      /\ Running(t, "lookup", "get_done")
      /\ ~f.found
      /\ ~IsParent(f.key)
      /\ compCalls' = [compCalls EXCEPT ![f.key] = @ + 1]
      /\ stack' = Call(t, [f EXCEPT !.pc = "comp_ret",
                                    !.trail = Append(@, "compute")],
                       Frame("obtain", "lock", ParentKey, 0, <<>>))
      /\ cur' = t
      /\ ev' = NoEv
      /\ UNCHANGED <<heap, mem, locks, db, env, cdc, ext, nc, histSrc, compDone, forced,
                     prev, histRet>>

\* Comment.post returns the post it obtained
ComputePostReturn(t) ==
  LET f == Top(t)
  IN  /\ cur = t
      /\ Running(t, "lookup", "comp_ret")
      /\ stack' = WithTop(t, [f EXCEPT !.pc = "pickle", !.data = f.ret])
      /\ ev' = NoEv
      /\ UNCHANGED <<cur, heap, mem, locks, db, env, cdc, ext, nc, hist>>

\* ------------------------------------------------------------- environment
\* a request to the Source is awaited
\* ------------------------------------- one attribute read, value by value
\* The values of awaitable properties are graphs: an item is an int, an entity
\* object or a container; a container is a tuple or a list of items.
I(n) == <<"int", n>>
E(o) == <<"ent", o>>
N(i) == <<"node", i>>
Tuple(items) == [ty |-> "tuple", items |-> items]
List(items) == [ty |-> "list", items |-> items]
Value(root, nodes) == [root |-> root, nodes |-> nodes]

\* the entity objects a computation hands out: object 1 is self, ED(0);
\* object 2 is another ED(0), equal to it; object 3 is ED(1)
CodecObjects == <<0, 0, 1>>
CodecKeys == {0, 1}

\* the awaitable properties of ED: self, self_list, self_tuple_bound,
\* self_tuple_unbound, primitive_type, primitive_type_tuple, complex_structure
EDValues ==
  {Value(E(1), <<>>),
   Value(N(1), <<List(<<E(1), E(1)>>)>>),
   Value(N(1), <<Tuple(<<E(1), E(1)>>)>>),
   Value(N(1), <<Tuple(<<E(1), E(1), E(1)>>)>>),
   Value(I(0), <<>>),
   Value(N(1), <<Tuple(<<I(0), I(0)>>)>>),
   Value(N(1), <<Tuple(<<I(4), E(1), N(2)>>), List(<<E(1), N(2)>>)>>)}

\* further values: a list that holds itself and nothing else, a tuple of two
\* entities, a tuple that holds one list twice, a list of an equal ED(0)
MoreValues ==
  {Value(N(1), <<List(<<N(1)>>)>>),
   Value(N(1), <<Tuple(<<E(1), E(3)>>)>>),
   Value(N(1), <<Tuple(<<N(2), N(2)>>), List(<<I(0)>>)>>),
   Value(N(1), <<List(<<E(2), E(3)>>)>>)}

NoRes == Value(I(-1), <<>>)
Op(name, arg) == [k |-> "emit", a |-> name, b |-> arg]
Save(item) == [k |-> "save", a |-> item[1], b |-> item[2]]
Memo(i) == [k |-> "memo", a |-> "", b |-> i]
Emit(bytes, name, arg) == Append(bytes, <<name, arg>>)

\* pickle.Pickler.save of a list: EMPTY_LIST, memoize, then every item
\* followed by APPEND
SaveList(i, items) ==
  <<Op("EMPTY_LIST", 0), Memo(i)>> \o
  [j \in 1..(2 * Len(items)) |->
     IF j % 2 = 1 THEN Save(items[(j + 1) \div 2]) ELSE Op("APPEND", 0)]

\* pickle.Pickler.save of a tuple: every item, then TUPLE, memoize
SaveTuple(i, items) ==
  [j \in 1..Len(items) |-> Save(items[j])] \o
  <<Op("TUPLE", Len(items)), Memo(i)>>

\* (a variant whose persistent_id collects an entity the first time only)
PicklerSaveCollectingOnce ==
  LET w == Head(c_work)
      rest == Tail(c_work)
      node == c_val.nodes[w.b]
  IN  /\ c_phase = "pickle"
      /\ c_work # <<>>
      /\ IF w.k = "emit"
           THEN /\ c_bytes' = Emit(c_bytes, w.a, w.b)
                /\ c_work' = rest
                /\ UNCHANGED <<c_memo, c_coll>>
           ELSE IF w.k = "memo"
           THEN /\ c_memo' = [c_memo EXCEPT ![w.b] =
                               Cardinality({n \in DOMAIN c_memo :
                                              c_memo[n] # 0}) + 1]
                /\ c_bytes' = Emit(c_bytes, "MEMOIZE", 0)
                /\ c_work' = rest
                /\ UNCHANGED c_coll
           ELSE IF w.a = "ent"
           THEN /\ c_bytes' = Emit(c_bytes, "PERSID", c_okey[w.b])
                /\ c_coll' = IF <<w.b, c_okey[w.b]>> \in Range(c_coll)
                             THEN c_coll
                             ELSE Append(c_coll, <<w.b, c_okey[w.b]>>)
                /\ c_work' = rest
                /\ UNCHANGED c_memo
           ELSE IF w.a = "int"
           THEN /\ c_bytes' = Emit(c_bytes, "INT", w.b)
                /\ c_work' = rest
                /\ UNCHANGED <<c_memo, c_coll>>
           ELSE IF c_memo[w.b] # 0
           THEN /\ c_bytes' = Emit(c_bytes, "GET", c_memo[w.b])
                /\ c_work' = rest
                /\ UNCHANGED <<c_memo, c_coll>>
           ELSE /\ c_work' = (IF node.ty = "list"
                                THEN SaveList(w.b, node.items)
                                ELSE SaveTuple(w.b, node.items)) \o rest
                /\ UNCHANGED <<c_bytes, c_memo, c_coll>>
      /\ UNCHANGED <<c_phase, c_mode, c_val, c_okey, c_id_map, c_field, c_db,
                     c_i, c_pos, c_stack, c_dmemo, c_nodes, c_res, c_err,
                     c_runs>>
      /\ UNCHANGED <<cur, stack, heap, mem, locks, db, env, nc, ext, hist, ev>>

\* DissociatingPickler(f).dump(obj), one save at a time. persistent_id is
\* asked first: an entity is written as its (class, identity) and collected,
\* every time it is met; a container that is in the memo is written as GET
PicklerSave ==
  LET w == Head(c_work)
      rest == Tail(c_work)
      node == c_val.nodes[w.b]
  IN  /\ c_phase = "pickle"
      /\ c_work # <<>>
      /\ IF w.k = "emit"
           THEN /\ c_bytes' = Emit(c_bytes, w.a, w.b)
                /\ c_work' = rest
                /\ UNCHANGED <<c_memo, c_coll>>
           ELSE IF w.k = "memo"
           THEN /\ c_memo' = [c_memo EXCEPT ![w.b] =
                               Cardinality({n \in DOMAIN c_memo :
                                              c_memo[n] # 0}) + 1]
                /\ c_bytes' = Emit(c_bytes, "MEMOIZE", 0)
                /\ c_work' = rest
                /\ UNCHANGED c_coll
           ELSE IF w.a = "ent"
           THEN /\ c_bytes' = Emit(c_bytes, "PERSID", c_okey[w.b])
                /\ c_coll' = Append(c_coll, <<w.b, c_okey[w.b]>>)
                /\ c_work' = rest
                /\ UNCHANGED c_memo
           ELSE IF w.a = "int"
           THEN /\ c_bytes' = Emit(c_bytes, "INT", w.b)
                /\ c_work' = rest
                /\ UNCHANGED <<c_memo, c_coll>>
           ELSE IF c_memo[w.b] # 0
           THEN /\ c_bytes' = Emit(c_bytes, "GET", c_memo[w.b])
                /\ c_work' = rest
                /\ UNCHANGED <<c_memo, c_coll>>
           ELSE /\ c_work' = (IF node.ty = "list"
                                THEN SaveList(w.b, node.items)
                                ELSE SaveTuple(w.b, node.items)) \o rest
                /\ UNCHANGED <<c_bytes, c_memo, c_coll>>
      /\ UNCHANGED <<c_phase, c_mode, c_val, c_okey, c_id_map, c_field, c_db,
                     c_i, c_pos, c_stack, c_dmemo, c_nodes, c_res, c_err,
                     c_runs>>
      /\ UNCHANGED <<cur, stack, heap, mem, locks, db, env, nc, ext, hist, ev>>

\* dump is done: STOP; return f.getvalue(), collected
PicklerStop ==
  /\ c_phase = "pickle"
  /\ c_work = <<>>
  /\ c_bytes' = Emit(c_bytes, "STOP", 0)
  /\ c_phase' = "associate"
  /\ c_i' = 1
  /\ UNCHANGED <<c_mode, c_val, c_okey, c_id_map, c_field, c_db, c_work,
                 c_memo, c_coll, c_pos, c_stack, c_dmemo, c_nodes, c_res,
                 c_err, c_runs>>
  /\ UNCHANGED <<cur, stack, heap, mem, locks, db, env, nc, ext, hist, ev>>

\* for c, i in collected: await self.cache(c, identity=i)
AssociateCollected ==
  LET c == c_coll[c_i][1]
      i == c_coll[c_i][2]
  IN  /\ c_phase = "associate"
      /\ c_i <= Len(c_coll)
      /\ c_id_map' = IF c_id_map[i] = 0
                       THEN [c_id_map EXCEPT ![i] = c]
                       ELSE c_id_map
      /\ c_i' = c_i + 1
      /\ UNCHANGED <<c_phase, c_mode, c_val, c_okey, c_field, c_db, c_bytes,
                     c_work, c_memo, c_coll, c_pos, c_stack, c_dmemo, c_nodes,
                     c_res, c_err, c_runs>>
      /\ UNCHANGED <<cur, stack, heap, mem, locks, db, env, nc, ext, hist, ev>>

\* (a variant of cached_attribute_lookup that refuses a list with a TypeError
\* before it stores anything)
PutAttrCheckingShape ==
  /\ c_phase = "associate"
  /\ c_i > Len(c_coll)
  /\ IF c_val.root[1] = "node" /\ c_val.nodes[c_val.root[2]].ty = "list"
       THEN /\ c_phase' = "done"
            /\ c_err' = "TypeError"
            /\ UNCHANGED c_db
       ELSE /\ c_phase' = "pass1"
            /\ c_db' = c_bytes
            /\ UNCHANGED c_err
  /\ UNCHANGED <<c_mode, c_val, c_okey, c_id_map, c_field, c_bytes, c_work,
                 c_memo, c_coll, c_i, c_pos, c_stack, c_dmemo, c_nodes, c_res,
                 c_runs>>
  /\ UNCHANGED <<cur, stack, heap, mem, locks, db, env, nc, ext, hist, ev>>

\* await self.put(AttrCacheRecord(..., data)): whatever the value is
PutAttr ==
  /\ c_phase = "associate"
  /\ c_i > Len(c_coll)
  /\ c_db' = c_bytes
  /\ c_phase' = "pass1"
  /\ UNCHANGED <<c_mode, c_val, c_okey, c_id_map, c_field, c_bytes, c_work,
                 c_memo, c_coll, c_i, c_pos, c_stack, c_dmemo, c_nodes, c_res,
                 c_err, c_runs>>
  /\ UNCHANGED <<cur, stack, heap, mem, locks, db, env, nc, ext, hist, ev>>

\* CollectingUnpickler(f).load(): persistent_load collects the (class,
\* identity) of every PERSID of the stream
persistent_ids(bytes) ==
  LET ps == SelectSeq(bytes, LAMBDA op : op[1] = "PERSID")
  IN  [j \in 1..Len(ps) |-> ps[j][2]]

CollectingUnpicklerLoad ==
  /\ c_phase = "pass1"
  /\ c_coll' = [j \in 1..Len(persistent_ids(c_bytes)) |->
                  <<0, persistent_ids(c_bytes)[j]>>]
  /\ c_i' = 1
  /\ c_phase' = "inter"
  /\ UNCHANGED <<c_mode, c_val, c_okey, c_id_map, c_field, c_db, c_bytes,
                 c_work, c_memo, c_pos, c_stack, c_dmemo, c_nodes, c_res,
                 c_err, c_runs>>
  /\ UNCHANGED <<cur, stack, heap, mem, locks, db, env, nc, ext, hist, ev>>

\* for n_cls, n_id in collected: await cache.obtain(n_cls, *n_id): an entity
\* that is not registered is built, from the Store or by the Source
InterPassObtain ==
  LET i == c_coll[c_i][2]
  IN  /\ c_phase = "inter"
      /\ c_i <= Len(c_coll)
      /\ IF c_id_map[i] = 0
           THEN /\ c_okey' = Append(c_okey, i)
                /\ c_id_map' = [c_id_map EXCEPT ![i] = Len(c_okey) + 1]
           ELSE UNCHANGED <<c_okey, c_id_map>>
      /\ c_i' = c_i + 1
      /\ UNCHANGED <<c_phase, c_mode, c_val, c_field, c_db, c_bytes, c_work,
                     c_memo, c_coll, c_pos, c_stack, c_dmemo, c_nodes, c_res,
                     c_err, c_runs>>
      /\ UNCHANGED <<cur, stack, heap, mem, locks, db, env, nc, ext, hist, ev>>

\* f.seek(0, os.SEEK_SET)
AssociatingUnpicklerStart ==
  /\ c_phase = "inter"
  /\ c_i > Len(c_coll)
  /\ c_phase' = "pass2"
  /\ c_pos' = 1
  /\ c_stack' = <<>>
  /\ c_dmemo' = <<>>
  /\ c_nodes' = <<>>
  /\ UNCHANGED <<c_mode, c_val, c_okey, c_id_map, c_field, c_db, c_bytes,
                 c_work, c_memo, c_coll, c_i, c_res, c_err, c_runs>>
  /\ UNCHANGED <<cur, stack, heap, mem, locks, db, env, nc, ext, hist, ev>>

\* (a variant of AssociatingUnpickler.persistent_load that returns None)
persistent_load_none(i) == 0

\* AssociatingUnpickler.persistent_load: cache._obtain_mapped(cls, *id_)
persistent_load(i) == c_id_map[i]

Pop(st, n) == SubSeq(st, 1, Len(st) - n)
Last(st) == st[Len(st)]

\* AssociatingUnpickler(f).load(), one opcode at a time
AssociatingUnpicklerLoad ==
  LET op == c_bytes[c_pos]
      n == Len(c_stack)
      new == Len(c_nodes) + 1
  IN  /\ c_phase = "pass2"
      /\ op[1] # "STOP"
      /\ c_pos' = c_pos + 1
      /\ IF op[1] = "PERSID"
           THEN /\ c_stack' = Append(c_stack, E(persistent_load(op[2])))
                /\ UNCHANGED <<c_dmemo, c_nodes>>
           ELSE IF op[1] = "INT"
           THEN /\ c_stack' = Append(c_stack, I(op[2]))
                /\ UNCHANGED <<c_dmemo, c_nodes>>
           ELSE IF op[1] = "EMPTY_LIST"
           THEN /\ c_nodes' = Append(c_nodes, List(<<>>))
                /\ c_stack' = Append(c_stack, N(new))
                /\ UNCHANGED c_dmemo
           ELSE IF op[1] = "MEMOIZE"
           THEN /\ c_dmemo' = Append(c_dmemo, Last(c_stack))
                /\ UNCHANGED <<c_stack, c_nodes>>
           ELSE IF op[1] = "APPEND"
           THEN /\ c_nodes' = [c_nodes EXCEPT ![c_stack[n - 1][2]].items =
                                 Append(@, c_stack[n])]
                /\ c_stack' = Pop(c_stack, 1)
                /\ UNCHANGED c_dmemo
           ELSE IF op[1] = "TUPLE"
           THEN /\ c_nodes' = Append(c_nodes,
                                     Tuple(SubSeq(c_stack, n - op[2] + 1, n)))
                /\ c_stack' = Append(Pop(c_stack, op[2]), N(new))
                /\ UNCHANGED c_dmemo
           ELSE /\ c_stack' = Append(c_stack, c_dmemo[op[2]])
                /\ UNCHANGED <<c_dmemo, c_nodes>>
      /\ UNCHANGED <<c_phase, c_mode, c_val, c_okey, c_id_map, c_field, c_db,
                     c_bytes, c_work, c_memo, c_coll, c_i, c_res, c_err,
                     c_runs>>
      /\ UNCHANGED <<cur, stack, heap, mem, locks, db, env, nc, ext, hist, ev>>

\* STOP: load returns the top of the stack;
\* self.field_map[obj.__class__][_id][attrname] = res; return res
StoreMappingOfRead ==
  /\ c_phase = "pass2"
  /\ c_bytes[c_pos][1] = "STOP"
  /\ c_res' = Value(Last(c_stack), c_nodes)
  /\ c_field' = c_res'
  /\ c_phase' = "done"
  /\ UNCHANGED <<c_mode, c_val, c_okey, c_id_map, c_db, c_bytes, c_work,
                 c_memo, c_coll, c_i, c_pos, c_stack, c_dmemo, c_nodes, c_err,
                 c_runs>>
  /\ UNCHANGED <<cur, stack, heap, mem, locks, db, env, nc, ext, hist, ev>>

\* the attribute is read again: return field_map[_id][attrname]
ReadAgainFromMemory ==
  /\ c_phase = "done"
  /\ c_err = ""
  /\ c_runs < MaxRereads
  /\ c_runs' = c_runs + 1
  /\ c_mode' = "mem"
  /\ c_res' = c_field
  /\ UNCHANGED <<c_phase, c_val, c_okey, c_id_map, c_field, c_db, c_bytes,
                 c_work, c_memo, c_coll, c_i, c_pos, c_stack, c_dmemo,
                 c_nodes, c_err>>
  /\ UNCHANGED <<cur, stack, heap, mem, locks, db, env, nc, ext, hist, ev>>

\* the attribute is read under a new Cache on the same Store: the maps are
\* empty, self is obtained anew, rec.data is found and unpickled
ReadAgainFromStore ==
  /\ c_phase = "done"
  /\ c_err = ""
  /\ c_runs < MaxRereads
  /\ c_runs' = c_runs + 1
  /\ c_mode' = "store"
  /\ c_id_map' = [i \in CodecKeys |-> 0]
  /\ c_field' = NoRes
  /\ c_res' = NoRes
  /\ c_bytes' = c_db
  /\ c_phase' = "pass1"
  /\ UNCHANGED <<c_val, c_okey, c_db, c_work, c_memo, c_coll, c_i, c_pos,
                 c_stack, c_dmemo, c_nodes, c_err>>
  /\ UNCHANGED <<cur, stack, heap, mem, locks, db, env, nc, ext, hist, ev>>

\* no attribute is read value by value
CodecIdle ==
  /\ c_phase = "idle"
  /\ c_mode = "compute"
  /\ c_val = NoRes
  /\ c_okey = CodecObjects
  /\ c_id_map = [i \in CodecKeys |-> 0]
  /\ c_field = NoRes
  /\ c_db = <<>>
  /\ c_bytes = <<>>
  /\ c_work = <<>>
  /\ c_memo = <<>>
  /\ c_coll = <<>>
  /\ c_i = 1
  /\ c_pos = 1
  /\ c_stack = <<>>
  /\ c_dmemo = <<>>
  /\ c_nodes = <<>>
  /\ c_res = NoRes
  /\ c_err = ""
  /\ c_runs = 0

\* the computation of an attribute has returned v, neither the attribute map
\* nor the Store having the attribute; the identity map has self (c = 1), an
\* equal object (c = 2) or no ED(0) (c = 0), as when the value is force-set
ComputedValue(v, c) ==
  /\ c_phase = "pickle"
  /\ c_mode = "compute"
  /\ c_val = v
  /\ c_okey = CodecObjects
  /\ c_id_map = [i \in CodecKeys |-> IF i = 0 THEN c ELSE 0]
  /\ c_field = NoRes
  /\ c_db = <<>>
  /\ c_bytes = <<>>
  /\ c_work = <<Save(v.root)>>
  /\ c_memo = [n \in DOMAIN v.nodes |-> 0]
  /\ c_coll = <<>>
  /\ c_i = 1
  /\ c_pos = 1
  /\ c_stack = <<>>
  /\ c_dmemo = <<>>
  /\ c_nodes = <<>>
  /\ c_res = NoRes
  /\ c_err = ""
  /\ c_runs = 0

\* ----------------------------------------------------------------- NoCache
\* (a variant of NoCache.__new__ that constructs an object on every call)
NoCache_newFresh == ncMade + 1

\* NoCache.__new__: the object NoCache() returns, which NoCache._instance
\* holds from the first call on (the objects are numbered as they are made)
NoCache_new == IF nc_instance = 0 THEN ncMade + 1 ELSE nc_instance

\* a call NoCache()
CallNoCache ==
  /\ nc_instance' = NoCache_new
  /\ ncMade' = IF NoCache_new = nc_instance THEN ncMade ELSE ncMade + 1
  /\ ncRet' = ncRet \cup {NoCache_new}

\* get_cache(obj): obj._cache or NoCache() (the NoCache object n is written -n)
get_cache(o) == IF _cache(o) # 0 THEN _cache(o) ELSE -NoCache_new

Held == UNION {handed[k] : k \in Keys}

\* the user calls get_cache(e) on an entity it holds
GetCache(o) ==
  /\ cur = 0
  /\ o \in Held
  /\ IF _cache(o) = 0
       THEN CallNoCache
       ELSE UNCHANGED <<nc_instance, ncMade, ncRet>>
  /\ ev' = [NoEv EXCEPT !.kind = "get_cache", !.key = okey[o], !.arg = o,
                        !.ret = <<get_cache(o)>>,
                        !.pre = IF o \in ncCached THEN 1 ELSE 0]
  /\ UNCHANGED <<cur, stack, heap, mem, locks, db, env, cdc, ext, hist,
                 ncCached>>

\* the user awaits NoCache().obtain(C, K): the Source constructor is awaited
\* (__obtain_ex__ is passed cls(), the NoCache object)
StartNcObtain(t, k) ==
  /\ cur = 0
  /\ Idle(t)
  /\ nops < CallsAllowed
  /\ stack' = [stack EXCEPT ![t] =
                 <<Frame("nc_obtain", "src_wait", k, 0, <<>>)>>]
  /\ IF IsParent(k)
       THEN CallNoCache
       ELSE UNCHANGED <<nc_instance, ncMade, ncRet>>
  /\ nops' = nops + 1
  /\ ev' = NoEv
  /\ UNCHANGED <<cur, heap, mem, locks, db, online, gen, budget, cdc, ext, hist,
                 ncCached>>

\* (a variant of NoCache.obtain that registers what the Source returned)
NcSourceReturnRegistering(t) ==
  LET k == Top(t).key
      made == IF IsParent(k) THEN Kids \o <<k>> ELSE <<k>>
      o == Len(okey) + Len(made)
  IN  /\ cur = 0
      /\ online
      /\ Running(t, "nc_obtain", "src_wait")
      /\ okey' = okey \o made
      /\ assoc' = assoc \o [j \in 1..Len(made) |-> 0]
      /\ id_map' = [id_map EXCEPT ![k] = IF @ = 0 THEN o ELSE @]
      /\ UNCHANGED <<field_map, locks, db, env, cdc, ext, histCnt, nc>>
      /\ Finish(t, "nc_obtain", k, 0, <<id_map'[k]>>, <<"source">>)

\* the Source answers: __obtain__ returns cls(...); __obtain_ex__ builds the
\* comments, awaits cache.cache_attribute(...), which is NoCache's and does
\* nothing, and returns cls(...)
NcSourceReturn(t) ==
  LET k == Top(t).key
      made == IF IsParent(k) THEN Kids \o <<k>> ELSE <<k>>
      o == Len(okey) + Len(made)
  IN  /\ cur = 0
      /\ online
      /\ Running(t, "nc_obtain", "src_wait")
      /\ okey' = okey \o made
      /\ assoc' = assoc \o [j \in 1..Len(made) |-> 0]
      /\ UNCHANGED <<mem, locks, db, env, cdc, ext, histCnt, nc>>
      /\ Finish(t, "nc_obtain", k, 0, <<o>>, <<"source">>)

\* the user awaits NoCache().cache(e): return obj
NcCache(o) ==
  /\ cur = 0
  /\ nops < CallsAllowed
  /\ o \in Held
  /\ nops' = nops + 1
  /\ ncCached' = ncCached \cup {o}
  /\ ev' = [NoEv EXCEPT !.kind = "nc_cache", !.key = okey[o], !.arg = o,
                        !.ret = <<o>>]
  /\ UNCHANGED <<cur, stack, heap, mem, locks, db, online, gen, budget, cdc, ext, hist,
                 nc_instance, ncMade, ncRet>>

\* the user awaits NoCache().cache_attribute(C, K, attrname, res): pass
NcCacheAttribute(k) ==
  /\ cur = 0
  /\ ev' = [NoEv EXCEPT !.kind = "nc_cache_attribute", !.key = k]
  /\ UNCHANGED <<cur, stack, heap, mem, locks, db, env, cdc, ext, hist,
                 nc>>

\* the user reads the awaitable property of an entity that has no cache:
\* NoCache.cached_attribute_lookup awaits coroutine(obj). Post.comments asks
\* the Source; Comment.post awaits get_cache(self).obtain(Post, post_id)
StartNcRead(t, o) ==
  LET k == okey[o]
  IN  /\ cur = 0
      /\ Idle(t)
      /\ nops < CallsAllowed
      /\ o \in Held
      /\ _cache(o) = 0
      /\ stack' = [stack EXCEPT ![t] =
                     IF IsParent(k)
                       THEN <<Frame("nc_lookup", "comp_wait", k, o, <<>>)>>
                       ELSE <<Frame("nc_lookup", "ret", k, o, <<>>),
                              Frame("nc_obtain", "src_wait", ParentKey, 0,
                                    <<>>)>>]
      /\ IF IsParent(k)
           THEN UNCHANGED <<nc_instance, ncMade, ncRet>>
           ELSE CallNoCache
      /\ nops' = nops + 1
      /\ ev' = NoEv
      /\ UNCHANGED <<cur, heap, mem, locks, db, online, gen, budget, cdc, ext, hist,
                     ncCached>>

\* Post.comments got its answer: the comments are built and returned
NcComputeComments(t) ==
  LET n == Len(okey)
      comments == [j \in 1..Len(Kids) |-> n + j]
  IN  /\ cur = 0
      /\ online
      /\ Running(t, "nc_lookup", "comp_wait")
      /\ okey' = okey \o Kids
      /\ assoc' = assoc \o [j \in 1..Len(Kids) |-> 0]
      /\ UNCHANGED <<mem, locks, db, env, cdc, ext, histCnt, nc>>
      /\ Finish(t, "nc_lookup", Top(t).key, Top(t).obj, comments,
                <<"compute">>)

\* Comment.post got the Post: it is returned
NcLookupReturn(t) ==
  /\ cur = t
  /\ Running(t, "nc_lookup", "ret")
  /\ UNCHANGED <<heap, mem, locks, db, env, cdc, ext, histCnt, nc>>
  /\ Finish(t, "nc_lookup", Top(t).key, Top(t).obj, Top(t).ret,
            <<"compute">>)

\* ---- Database (cache/database.py): entity records in sqlite tables ----

NDbTasks == 2
MaxDbCalls == 3
MaxDbFaults == 1
DbTasks == 1..NDbTasks
DbClasses == {"Parent", "Child"}
DbIds == 0..1
\* the fields of an entity next to its identity, as one value: a Parent has
\* the field id alone, a Child has parent_id and text too
DbFields(c) == IF c = "Parent" THEN {0} ELSE {1, 2}
DbEntities == {e \in DbClasses \X DbIds \X {0, 1, 2} : e[3] \in DbFields(e[1])}

\* the variables of the Cache, of NoCache and of the pickler
core == <<cur, stack, heap, mem, locks, db, env, cdc, nc, hist, ev>>
\* every variable that is not the Database's
notDb == <<core, dfn, wld, rst>>

DbIdle ==
  [pc |-> "idle", cls |-> "Parent", id |-> 0, text |-> 0, upserts |-> 0,
   created |-> FALSE, missing |-> FALSE]

NoDbEv ==
  [kind |-> "none", task |-> 0, cls |-> "Parent", id |-> 0, text |-> 0,
   err |-> "", upserts |-> 0, created |-> FALSE, missing |-> FALSE,
   fault |-> FALSE, absent |-> FALSE, table |-> FALSE]

\* the rows of class c whose primary key is i
RowsOf(rows, c, i) == {r \in rows[c] : r[1] = i}

\* task t's call returns x, or raises err: f is its frame at that moment
DbFinish(t, f, x, err, fault) ==
  /\ d_task' = [d_task EXCEPT ![t] = DbIdle]
  /\ d_ev' = [kind |-> IF f.pc = "select" THEN "retrieve" ELSE "store",
              task |-> t, cls |-> f.cls, id |-> f.id, text |-> x,
              err |-> err, upserts |-> f.upserts, created |-> f.created,
              missing |-> f.missing, fault |-> fault,
              absent |-> RowsOf(d_rows, f.cls, f.id) = {},
              table |-> f.cls \in d_tables]

\* await db.store(obj): the call starts with _upsert
store(t, c, i, x) ==
  /\ d_task[t].pc = "idle"
  /\ d_calls < MaxDbCalls
  /\ d_calls' = d_calls + 1
  /\ d_task' = [d_task EXCEPT ![t] = [DbIdle EXCEPT !.pc = "upsert",
                                        !.cls = c, !.id = i, !.text = x]]
  /\ d_ev' = NoDbEv
  /\ UNCHANGED <<d_tables, d_rows, d_faults, d_puts, notDb>>

\* INSERT INTO the class's table with no ON CONFLICT clause: a second row of
\* one primary key is refused
_upsert_plain_insert(t) ==
  LET f == [d_task[t] EXCEPT !.upserts = @ + 1] IN
  /\ d_task[t].pc \in {"upsert", "retry"}
  /\ IF f.cls \notin d_tables
       THEN IF f.pc = "upsert"
              THEN /\ d_task' = [d_task EXCEPT ![t] =
                                   [f EXCEPT !.pc = "create",
                                             !.missing = TRUE]]
                   /\ d_ev' = NoDbEv
                   /\ UNCHANGED <<d_rows, d_puts>>
              ELSE /\ DbFinish(t, f, f.text, "OperationalError", FALSE)
                   /\ UNCHANGED <<d_rows, d_puts>>
       ELSE IF RowsOf(d_rows, f.cls, f.id) # {}
              THEN /\ DbFinish(t, f, f.text, "IntegrityError", FALSE)
                   /\ UNCHANGED <<d_rows, d_puts>>
              ELSE /\ d_rows' = [d_rows EXCEPT ![f.cls] =
                                   @ \cup {<<f.id, f.text>>}]
                   /\ d_puts' = [d_puts EXCEPT ![<<f.cls, f.id, f.text>>] =
                                   @ + 1]
                   /\ DbFinish(t, f, f.text, "", FALSE)
  /\ UNCHANGED <<d_tables, d_calls, d_faults, notDb>>

\* _upsert's statement runs: INSERT ... ON CONFLICT (identity) DO UPDATE.
\* With no table it raises "no such table", which store answers, the first
\* time, by going on to _create_table; the second _upsert is outside the try
_upsert(t) ==
  LET f == [d_task[t] EXCEPT !.upserts = @ + 1] IN
  /\ d_task[t].pc \in {"upsert", "retry"}
  /\ IF f.cls \notin d_tables
       THEN IF f.pc = "upsert"
              THEN /\ d_task' = [d_task EXCEPT ![t] =
                                   [f EXCEPT !.pc = "create",
                                             !.missing = TRUE]]
                   /\ d_ev' = NoDbEv
                   /\ UNCHANGED <<d_rows, d_puts>>
              ELSE /\ DbFinish(t, f, f.text, "OperationalError", FALSE)
                   /\ UNCHANGED <<d_rows, d_puts>>
       ELSE /\ d_rows' = [d_rows EXCEPT ![f.cls] =
                            {r \in @ : r[1] # f.id} \cup {<<f.id, f.text>>}]
            /\ d_puts' = [d_puts EXCEPT ![<<f.cls, f.id, f.text>>] = @ + 1]
            /\ DbFinish(t, f, f.text, "", FALSE)
  /\ UNCHANGED <<d_tables, d_calls, d_faults, notDb>>

\* _create_table's statement runs: CREATE TABLE raises "table ... already
\* exists" when another store has created it meanwhile, and store has no
\* handler around it
_create_table(t) ==
  LET f == d_task[t] IN
  /\ f.pc = "create"
  /\ IF f.cls \in d_tables
       THEN /\ DbFinish(t, f, f.text, "OperationalError", FALSE)
            /\ UNCHANGED d_tables
       ELSE /\ d_tables' = d_tables \cup {f.cls}
            /\ d_task' = [d_task EXCEPT ![t].pc = "retry",
                                        ![t].created = TRUE]
            /\ d_ev' = NoDbEv
  /\ UNCHANGED <<d_rows, d_calls, d_faults, d_puts, notDb>>

\* await db.retrieve(dataclass, *identity): the call starts with the SELECT
retrieve(t, c, i) ==
  /\ d_task[t].pc = "idle"
  /\ d_calls < MaxDbCalls
  /\ d_calls' = d_calls + 1
  /\ d_task' = [d_task EXCEPT ![t] = [DbIdle EXCEPT !.pc = "select",
                                        !.cls = c, !.id = i]]
  /\ d_ev' = NoDbEv
  /\ UNCHANGED <<d_tables, d_rows, d_faults, d_puts, notDb>>

\* retrieve looks at what fetchone gave, and raises the miss outcome for None
fetchone_or_missing(t) ==
  LET f == d_task[t] IN
  /\ f.pc = "select"
  /\ IF f.cls \notin d_tables
       THEN DbFinish(t, f, 0, "OperationalError", FALSE)
       ELSE IF RowsOf(d_rows, f.cls, f.id) = {}
              THEN DbFinish(t, f, 0, "RecordMissingError", FALSE)
              ELSE \E r \in RowsOf(d_rows, f.cls, f.id) :
                     DbFinish(t, f, r[2], "", FALSE)
  /\ UNCHANGED <<d_tables, d_rows, d_calls, d_faults, d_puts, notDb>>

\* the SELECT runs and fetchone gives the row, or None: dataclass(*None) is a
\* TypeError. With no table the SELECT raises "no such table"
fetchone(t) ==
  LET f == d_task[t] IN
  /\ f.pc = "select"
  /\ IF f.cls \notin d_tables
       THEN DbFinish(t, f, 0, "OperationalError", FALSE)
       ELSE IF RowsOf(d_rows, f.cls, f.id) = {}
              THEN DbFinish(t, f, 0, "TypeError", FALSE)
              ELSE \E r \in RowsOf(d_rows, f.cls, f.id) :
                     DbFinish(t, f, r[2], "", FALSE)
  /\ UNCHANGED <<d_tables, d_rows, d_calls, d_faults, d_puts, notDb>>

\* store takes every sqlite3.OperationalError for a missing table
StatementFailsTakenForNoTable(t) ==
  LET f == d_task[t] IN
  /\ f.pc \in {"upsert", "create", "retry", "select"}
  /\ d_faults < MaxDbFaults
  /\ d_faults' = d_faults + 1
  /\ IF f.pc = "upsert"
       THEN /\ d_task' = [d_task EXCEPT ![t].pc = "create",
                                        ![t].upserts = 1]
            /\ d_ev' = NoDbEv
       ELSE DbFinish(t, f, f.text, "OperationalError", TRUE)
  /\ UNCHANGED <<d_tables, d_rows, d_calls, d_puts, notDb>>

\* a statement fails for another reason than a missing table ("disk I/O
\* error", "database is locked"): store re-raises it from its handler, and
\* nothing else in store or retrieve catches it
StatementFails(t) ==
  LET f == d_task[t] IN
  /\ f.pc \in {"upsert", "create", "retry", "select"}
  /\ d_faults < MaxDbFaults
  /\ d_faults' = d_faults + 1
  /\ DbFinish(t, f, f.text, "OperationalError", TRUE)
  /\ UNCHANGED <<d_tables, d_rows, d_calls, d_puts, notDb>>

\* ---- dataclass() (dataclasses/_core.py): the definition of a class ----

MaxIdentityLen == 2
FieldNames == {"id", "parent_id", "text", "_cache_holder"}
IdentityNames == {"id", "text", "nonex"}
Identities == UNION {[1..n -> IdentityNames] : n \in 0..MaxIdentityLen}

\* all_field_names: the names of the fields but _cache_holder
all_field_names(fields) == fields \ {"_cache_holder"}

\* the check of core.py: every identity name is the name of some field
identity_asserts_any(fields, identity) ==
  \A n \in DOMAIN identity : \E field \in fields : field = identity[n]

\* for fname in identity_field_names:
\*     assert all(fname in all_field_names for field in fields)
\* the generator runs once per field, so all() of it is True with no field
identity_asserts(fields, identity) ==
  \A n \in DOMAIN identity :
    \A field \in fields : identity[n] \in all_field_names(fields)

\* @dataclass(identity=...) is applied to a class: augment runs the asserts
\* and, when they pass, returns the wrapper class
augment ==
  /\ df_res = ""
  /\ df_res' = IF identity_asserts(df_fields, df_identity)
                 THEN "DataClass"
                 ELSE "AssertionError"
  /\ UNCHANGED <<df_fields, df_identity, core, dbs, wld, rst>>

\* no class is being defined
DefineIdle ==
  /\ df_fields = {}
  /\ df_identity = <<>>
  /\ df_res = "DataClass"

\* ---- WeakLockDict (cache/_cache.py): the locks of the Cache ----

NLockTasks == 3
MaxLocks == 3
LockTasks == 1..NLockTasks
\* hashable keys: (class, identity) of obtain, (class, identity, attrname) of
\* cache_attribute
HashKeys == {"Comment1", "Post0comments"}

NoLookup == [task |-> 0, key |-> "", lock |-> 0, was |-> 0]

\* the tasks that hold lock l or wait on it: they keep it alive
Referents(l) == {t \in LockTasks : w_ref[t] = l}

\* (a variant that returns the new lock without storing it)
getitem_not_stored(t, k) ==
  /\ w_ref[t] = 0
  /\ w_data[k] # 0 \/ w_made < MaxLocks
  /\ LET l == IF w_data[k] # 0 THEN w_data[k] ELSE w_made + 1
     IN  /\ w_data' = w_data
         /\ w_made' = IF w_data[k] # 0 THEN w_made ELSE w_made + 1
         /\ w_ref' = [w_ref EXCEPT ![t] = l]
         /\ w_keys' = IF l > Len(w_keys) THEN Append(w_keys, {k})
                       ELSE [w_keys EXCEPT ![l] = @ \cup {k}]
         /\ w_ev' = [task |-> t, key |-> k, lock |-> l, was |-> w_data[k]]
  /\ w_key' = [w_key EXCEPT ![t] = k]
  /\ UNCHANGED <<w_in, core, dbs, dfn, rst>>

\* self._locks[k], in `async with self._locks[k]:` of task t: the entry's lock,
\* or on KeyError a new asyncio.Lock() that is stored under k and returned.
\* Nothing is awaited. The task then holds the lock or waits on it
__getitem__(t, k) ==
  /\ w_ref[t] = 0
  /\ w_data[k] # 0 \/ w_made < MaxLocks
  /\ LET l == IF w_data[k] # 0 THEN w_data[k] ELSE w_made + 1
     IN  /\ w_data' = [w_data EXCEPT ![k] = l]
         /\ w_made' = IF w_data[k] # 0 THEN w_made ELSE w_made + 1
         /\ w_ref' = [w_ref EXCEPT ![t] = l]
         /\ w_keys' = IF l > Len(w_keys) THEN Append(w_keys, {k})
                       ELSE [w_keys EXCEPT ![l] = @ \cup {k}]
         /\ w_ev' = [task |-> t, key |-> k, lock |-> l, was |-> w_data[k]]
  /\ w_key' = [w_key EXCEPT ![t] = k]
  /\ UNCHANGED <<w_in, core, dbs, dfn, rst>>

\* task t leaves its `async with` (or is cancelled while waiting): it drops
\* its reference to the lock
DropLock(t) ==
  /\ w_ref[t] # 0
  /\ w_ref' = [w_ref EXCEPT ![t] = 0]
  /\ w_key' = [w_key EXCEPT ![t] = ""]
  /\ w_in' = w_in \ {t}
  /\ w_ev' = NoLookup
  /\ UNCHANGED <<w_data, w_made, w_keys, core, dbs, dfn, rst>>

\* asyncio.Lock.acquire of `async with self._locks[k]` returns: nobody holds
\* the lock that the lookup of task t returned, t takes it and enters the block
EnterLocked(t) ==
  /\ w_ref[t] # 0
  /\ t \notin w_in
  /\ \A u \in w_in : w_ref[u] # w_ref[t]
  /\ w_in' = w_in \cup {t}
  /\ w_ev' = NoLookup
  /\ UNCHANGED <<w_data, w_ref, w_made, w_keys, w_key, core, dbs, dfn, rst>>

\* (a variant whose entries go away whether or not a task references the lock)
CollectedWhileReferenced(k) ==
  /\ w_data[k] # 0
  /\ w_data' = [w_data EXCEPT ![k] = 0]
  /\ w_ev' = NoLookup
  /\ UNCHANGED <<w_ref, w_made, w_keys, w_key, w_in, core, dbs, dfn, rst>>

\* WeakValueDictionary: the lock of the entry of k has no referent left, it
\* is collected (at once under reference counting, some time later under
\* another collector) and the entry goes away
Collected(k) ==
  /\ w_data[k] # 0
  /\ Referents(w_data[k]) = {}
  /\ w_data' = [w_data EXCEPT ![k] = 0]
  /\ w_ev' = NoLookup
  /\ UNCHANGED <<w_ref, w_made, w_keys, w_key, w_in, core, dbs, dfn, rst>>

\* self._locks = WeakLockDict()
WeakLockDictEmpty ==
  /\ w_data = [k \in HashKeys |-> 0]
  /\ w_ref = [t \in LockTasks |-> 0]
  /\ w_made = 0
  /\ w_keys = <<>>
  /\ w_ev = NoLookup
  /\ w_key = [t \in LockTasks |-> ""]
  /\ w_in = {}

\* ---- return annotations of awaitable properties (dataclasses/) ----

MaxTypeArgs == 3
\* what stands between the brackets of an annotation; Ellipsis is `...`
TypeArgs == {"Self", "int", "Ellipsis"}
ArgLists == UNION {[1..n -> TypeArgs] : n \in 0..MaxTypeArgs}
\* a class as an annotation: typing.get_origin gives None, get_args gives ()
Plain(n) == [origin |-> "None", args |-> <<>>, name |-> n]
\* tuple[...], list[...] and the bare typing.Tuple (origin tuple, no args)
Generic(o, a) == [origin |-> o, args |-> a, name |-> ""]
NoAnnotation == [origin |-> "", args |-> <<>>, name |-> ""]
Annotations ==
  {Plain(n) : n \in {"Self", "int", "tuple"}}
    \cup {Generic(o, a) : o \in {"tuple", "list"}, a \in ArgLists}
    \cup {NoAnnotation}

Outcome(out, seq, cls) == [out |-> out, seq |-> seq, cls |-> cls]

\* (a variant that takes every two-argument tuple for an open one)
inspect_return_type_by_length(ra) ==
  IF ra = NoAnnotation THEN Outcome("AssertionError", FALSE, NoAnnotation)
  ELSE IF ra.origin = "tuple"
  THEN IF ra.args = <<>>
       THEN Outcome("ValueError", FALSE, NoAnnotation)
       ELSE LET tgt_cls == Head(ra.args)
                el == Tail(ra.args)
            IN  IF Len(el) # 1
                THEN Outcome("TypeError", FALSE, NoAnnotation)
                ELSE Outcome("return", TRUE, Plain(tgt_cls))
  ELSE Outcome("return", FALSE, ra)

\* inspect_return_type(coroutine), on the coroutine's return annotation ra:
\* (True, T) for tuple[T, ...], TypeError for another tuple annotation that
\* has arguments, (False, ra) for an annotation whose origin is not tuple.
\* `tgt_cls, *el = typing.get_args(ra)` needs one argument at least
inspect_return_type(ra) ==
  IF ra = NoAnnotation THEN Outcome("AssertionError", FALSE, NoAnnotation)
  ELSE IF ra.origin = "tuple"
  THEN IF ra.args = <<>>
       THEN Outcome("ValueError", FALSE, NoAnnotation)
       ELSE LET tgt_cls == Head(ra.args)
                el == Tail(ra.args)
            IN  IF Len(el) # 1 \/ el[1] # "Ellipsis"
                THEN Outcome("TypeError", FALSE, NoAnnotation)
                ELSE Outcome("return", TRUE, Plain(tgt_cls))
  ELSE Outcome("return", FALSE, ra)

NoReturnTypeEv == [op |-> "", res |-> Outcome("", FALSE, NoAnnotation)]

\* @awaitable_property on `async def name(self) -> ra`: the descriptor keeps
\* the coroutine function; the annotation is not looked at
awaitable_property(ra) ==
  /\ r_ev.op = ""
  /\ r_ann' = ra
  /\ r_ev' = [op |-> "define", res |-> Outcome("return", FALSE, NoAnnotation)]
  /\ UNCHANGED <<core, dbs, dfn, wld>>

\* `await obj.name`: the coroutine's value comes back, whatever ra is
AwaitProperty ==
  /\ r_ev.op # ""
  /\ r_ev' = [op |-> "read", res |-> Outcome("return", FALSE, NoAnnotation)]
  /\ UNCHANGED <<r_ann, core, dbs, dfn, wld>>

\* a call of inspect_return_type on the coroutine
InspectReturnType ==
  /\ r_ev.op # ""
  /\ r_ev' = [op |-> "inspect", res |-> inspect_return_type(r_ann)]
  /\ UNCHANGED <<r_ann, core, dbs, dfn, wld>>

ReturnTypeIdle ==
  /\ r_ann = NoAnnotation
  /\ r_ev = NoReturnTypeEv

\* a new Database: no table, no call
DatabaseIdle ==
  /\ d_tables = {}
  /\ d_rows = [c \in DbClasses |-> {}]
  /\ d_task = [t \in DbTasks |-> DbIdle]
  /\ d_calls = 0
  /\ d_faults = 0
  /\ d_puts = [e \in DbEntities |-> 0]
  /\ d_ev = NoDbEv

ExtIdle ==
  /\ DatabaseIdle
  /\ DefineIdle
  /\ WeakLockDictEmpty
  /\ ReturnTypeIdle

AwaitsSource(t) ==
  /\ stack[t] # <<>>
  /\ Top(t).pc \in {"src_wait", "comp_wait"}

\* the network goes away or comes back; it is looked at only when a request
\* to the Source completes, so it changes while one is awaited
ToggleOnline ==
  /\ cur = 0
  /\ \E t \in Tasks : AwaitsSource(t)
  /\ online' = ~online
  /\ ev' = NoEv
  /\ UNCHANGED <<cur, stack, heap, mem, locks, db, gen, nops, budget, cdc, ext, nc, hist>>

\* the user cancels a task that is suspended (task.cancel()): CancelledError
\* is raised at the await the task is suspended in
Cancel(t) ==
  /\ cur = 0
  /\ stack[t] # <<>>
  /\ nops < CallsAllowed
  /\ nops' = nops + 1
  /\ srcFails' = [k \in Keys |->
                    IF Unfinished(t, k) THEN srcFails[k] + 1 ELSE srcFails[k]]
  /\ Raise(t, "CancelledError")
  /\ UNCHANGED <<heap, mem, db, online, gen, budget, cdc, ext, nc, srcCalls, histComp,
                 forced, prev, histRet>>

\* the Store fails: the awaited get or put raises
StoreFail(t) ==
  /\ cur = 0
  /\ stack[t] # <<>>
  /\ Top(t).pc \in {"get_wait", "put_wait"}
  /\ nops < CallsAllowed
  /\ nops' = nops + 1
  /\ srcFails' = [k \in Keys |->
                    IF Unfinished(t, k) THEN srcFails[k] + 1 ELSE srcFails[k]]
  /\ Raise(t, "StoreError")
  /\ UNCHANGED <<heap, mem, db, online, gen, budget, cdc, ext, nc, srcCalls, histComp,
                 forced, prev, histRet>>

\* the cache is closed and a new Cache is opened on the same Store path, with
\* the Source reachable or not; the objects of the closed cache are dropped
Reopen ==
  /\ cur = 0
  /\ \A t \in Tasks : stack[t] = <<>>
  /\ gen < MaxGen
  /\ gen' = gen + 1
  /\ nops' = 0
  /\ okey' = <<>>
  /\ assoc' = <<>>
  /\ id_map' = [k \in Keys |-> 0]
  /\ field_map' = [k \in Keys |-> NoVal]
  /\ srcCalls' = [k \in Keys |-> 0]
  /\ srcFails' = [k \in Keys |-> 0]
  /\ compCalls' = [k \in Keys |-> 0]
  /\ compDone' = [k \in Keys |-> 0]
  /\ forced' = [k \in Keys |-> {}]
  /\ handed' = [k \in Keys |-> {}]
  /\ obtained' = [k \in Keys |-> {}]
  /\ raced' = {}
  /\ readVals' = [k \in Keys |-> {}]
  /\ reads' = [k \in Keys |-> 0]
  /\ racedReads' = {}
  /\ late' = {}
  /\ prevVals' = [k \in Keys |->
                   prevVals[k] \cup {IdentitiesOf(v) : v \in readVals[k]}]
  /\ prevSet' = [k \in Keys |->
                  prevSet[k] \cup {IdentitiesOf(v) : v \in readVals[k]}
                             \cup forced[k]]
  /\ prevEnt' = prevEnt \cup {k \in Keys : obtained[k] # {}}
                         \cup UNION {Range(i) : i \in UNION Range(prevSet')}
  /\ online' \in BOOLEAN
  /\ ev' = NoEv
  /\ ncCached' = {}
  /\ UNCHANGED <<cur, stack, locks, db, budget, cdc, ext, nc_instance, ncMade, ncRet>>

Start ==
  /\ cur = 0
  /\ stack = [t \in Tasks |-> <<>>]
  /\ okey = <<>>
  /\ assoc = <<>>
  /\ id_map = [k \in Keys |-> 0]
  /\ field_map = [k \in Keys |-> NoVal]
  /\ locks = [l \in LockIds |-> 0]
  /\ db_ent = {}
  /\ db_attr = [k \in Keys |-> NoBlob]
  /\ online = TRUE
  /\ gen = 1
  /\ nops = 0
  /\ srcCalls = [k \in Keys |-> 0]
  /\ srcFails = [k \in Keys |-> 0]
  /\ compCalls = [k \in Keys |-> 0]
  /\ compDone = [k \in Keys |-> 0]
  /\ forced = [k \in Keys |-> {}]
  /\ handed = [k \in Keys |-> {}]
  /\ obtained = [k \in Keys |-> {}]
  /\ raced = {}
  /\ readVals = [k \in Keys |-> {}]
  /\ reads = [k \in Keys |-> 0]
  /\ racedReads = {}
  /\ late = {}
  /\ prevVals = [k \in Keys |-> {}]
  /\ prevSet = [k \in Keys |-> {}]
  /\ prevEnt = {}
  /\ nc_instance = 0
  /\ ncMade = 0
  /\ ncRet = {}
  /\ ncCached = {}
  /\ ev = NoEv

\* a new Cache on an empty Store
Init ==
  /\ Start
  /\ ExtIdle
  /\ budget = MaxOps
  /\ CodecIdle

InitDeep ==
  /\ Start
  /\ ExtIdle
  /\ budget = MaxOpsDeep
  /\ CodecIdle

\* an attribute read with every value of ED's properties, and more
InitCodec ==
  /\ Start
  /\ ExtIdle
  /\ budget = MaxOps
  /\ \E v \in EDValues \cup MoreValues : \E c \in 0..2 : ComputedValue(v, c)

Next ==
  \/ \E t \in Tasks : \E k \in Keys : StartObtain(t, k)
  \/ \E t \in Tasks : \E k \in Keys : \E c \in {0, OtherCache} :
       StartCache(t, k, c)
  \/ \E t \in Tasks : \E o \in DOMAIN okey : StartCacheHeld(t, o)
  \/ \E t \in Tasks : \E o \in DOMAIN okey : StartRead(t, o)
  \/ \E t \in Tasks : Acquire(t)
  \/ \E t \in Tasks : AwaitLock(t)
  \/ \E t \in Tasks : ObtainMemHit(t)
  \/ \E t \in Tasks : ObtainMemMiss(t)
  \/ \E t \in Tasks : DbGetEntity(t)
  \/ \E t \in Tasks : ObtainStoreHit(t)
  \/ \E t \in Tasks : ObtainStoreMiss(t)
  \/ \E t \in Tasks : SourceReturnChild(t)
  \/ \E t \in Tasks : SourceReturnParent(t)
  \/ \E t \in Tasks : SourceFail(t)
  \/ \E t \in Tasks : ObtainExReturn(t)
  \/ \E t \in Tasks : ObtainReturn(t)
  \/ \E t \in Tasks : CacheHit(t)
  \/ \E t \in Tasks : CacheMiss(t)
  \/ \E t \in Tasks : DbPutEntity(t)
  \/ \E t \in Tasks : CacheRegister(t)
  \/ \E t \in Tasks : Pickle(t)
  \/ \E t \in Tasks : AssociateNext(t)
  \/ \E t \in Tasks : AssociateDone(t)
  \/ \E t \in Tasks : DbPutAttr(t)
  \/ \E t \in Tasks : Unpickle(t)
  \/ \E t \in Tasks : StoreMapping(t)
  \/ \E t \in Tasks : UnpickleObtain(t)
  \/ \E t \in Tasks : UnpicklePass2(t)
  \/ \E t \in Tasks : LookupMemHit(t)
  \/ \E t \in Tasks : LookupMemMiss(t)
  \/ \E t \in Tasks : DbGetAttr(t)
  \/ \E t \in Tasks : LookupStoreHit(t)
  \/ \E t \in Tasks : ComputeComments(t)
  \/ \E t \in Tasks : ComputeCommentsReturn(t)
  \/ \E t \in Tasks : ComputePost(t)
  \/ \E t \in Tasks : ComputePostReturn(t)
  \/ \E t \in Tasks : Cancel(t)
  \/ \E t \in Tasks : StoreFail(t)
  \/ ToggleOnline
  \/ Reopen

Spec == Init /\ [][Next]_vars

\* a step of a call that is under way: the event loop runs every task that is
\* ready, and every request to the Store or the Source comes to an end
Step ==
  \E t \in Tasks :
    \/ Acquire(t) \/ AwaitLock(t)
    \/ ObtainMemHit(t) \/ ObtainMemMiss(t) \/ DbGetEntity(t)
    \/ ObtainStoreHit(t) \/ ObtainStoreMiss(t)
    \/ SourceReturnChild(t) \/ SourceReturnParent(t) \/ SourceFail(t)
    \/ ObtainExReturn(t) \/ ObtainReturn(t)
    \/ CacheHit(t) \/ CacheMiss(t) \/ DbPutEntity(t) \/ CacheRegister(t)
    \/ Pickle(t) \/ AssociateNext(t) \/ AssociateDone(t) \/ DbPutAttr(t)
    \/ Unpickle(t) \/ StoreMapping(t) \/ UnpickleObtain(t) \/ UnpicklePass2(t)
    \/ LookupMemHit(t) \/ LookupMemMiss(t) \/ DbGetAttr(t)
    \/ LookupStoreHit(t) \/ ComputeComments(t) \/ ComputeCommentsReturn(t)
    \/ ComputePost(t) \/ ComputePostReturn(t)

SpecFair == Spec /\ WF_vars(Step)

\* the same program, with one more read of an awaitable property before the
\* cache is reopened
SpecDeep == InitDeep /\ [][Next]_vars

\* the calls of Next and, next to them, calls on NoCache and on entities that
\* have no cache
NextNoCache ==
  \/ Next
  \/ \E o \in DOMAIN okey : GetCache(o)
  \/ \E t \in Tasks : \E k \in Keys : StartNcObtain(t, k)
  \/ \E t \in Tasks : NcSourceReturn(t)
  \/ \E o \in DOMAIN okey : NcCache(o)
  \/ \E k \in Keys : NcCacheAttribute(k)
  \/ \E t \in Tasks : \E o \in DOMAIN okey : StartNcRead(t, o)
  \/ \E t \in Tasks : NcComputeComments(t)
  \/ \E t \in Tasks : NcLookupReturn(t)

SpecNoCache == Init /\ [][NextNoCache]_vars

\* the calls of Next with a Source whose constructor may return an entity
\* that is not the one asked for
NextBadSource ==
  \/ Next
  \/ \E t \in Tasks : SourceReturnWrongClass(t)
  \/ \E t \in Tasks : SourceReturnWrongIdentity(t)

SpecBadSource == Init /\ [][NextBadSource]_vars

\* the user force-sets attribute values too
NextForce ==
  \/ Next
  \/ \E t \in Tasks : \E k \in Keys : \E n \in 0..Len(Kids) :
       StartCacheAttribute(t, k, n)

SpecForce == Init /\ [][NextForce]_vars

\* the steps of one attribute read: cached_attribute_lookup from the value
\* its computation returned on, and the reads that follow
CodecStep ==
  \/ PicklerSave
  \/ PicklerStop
  \/ AssociateCollected
  \/ PutAttr
  \/ CollectingUnpicklerLoad
  \/ InterPassObtain
  \/ AssociatingUnpicklerStart
  \/ AssociatingUnpicklerLoad
  \/ StoreMappingOfRead

NextCodec ==
  \/ CodecStep
  \/ ReadAgainFromMemory
  \/ ReadAgainFromStore

\* every call goes on until it returns: nothing else runs on the event loop
SpecCodec == InitCodec /\ [][NextCodec]_vars /\ WF_vars(CodecStep)

\* calls of a Database from NDbTasks tasks
NextDb ==
  \/ \E t \in DbTasks : \E e \in DbEntities : store(t, e[1], e[2], e[3])
  \/ \E t \in DbTasks : _upsert(t)
  \/ \E t \in DbTasks : _create_table(t)
  \/ \E t \in DbTasks : \E c \in DbClasses : \E i \in DbIds : retrieve(t, c, i)
  \/ \E t \in DbTasks : fetchone(t)
  \/ \E t \in DbTasks : StatementFails(t)

SpecDb == Init /\ [][NextDb]_vars

\* one class definition, of any field names and any identity names
InitDefine ==
  /\ Start
  /\ budget = MaxOps
  /\ CodecIdle
  /\ DatabaseIdle
  /\ WeakLockDictEmpty
  /\ ReturnTypeIdle
  /\ df_fields \in SUBSET FieldNames
  /\ df_identity \in Identities
  /\ df_res = ""

NextDefine == augment

SpecDefine == InitDefine /\ [][NextDefine]_vars

\* lookups of a WeakLockDict by NLockTasks tasks
NextLocks ==
  \/ \E t \in LockTasks : \E k \in HashKeys : __getitem__(t, k)
  \/ \E t \in LockTasks : EnterLocked(t)
  \/ \E t \in LockTasks : DropLock(t)
  \/ \E k \in HashKeys : Collected(k)

SpecLocks == Init /\ [][NextLocks]_vars

\* one awaitable property of any return annotation: defined, read, inspected
NextReturnType ==
  \/ \E ra \in Annotations : awaitable_property(ra)
  \/ AwaitProperty
  \/ InspectReturnType

SpecReturnType == Init /\ [][NextReturnType]_vars

TypeOK ==
  /\ cur \in 0..NTasks
  /\ \A k \in Keys : id_map[k] \in 0..Len(okey)
  /\ Len(okey) = Len(assoc)

\* ------------------------------------------------------------- properties
IsPrefix(a, b) == Len(a) <= Len(b) /\ \A j \in DOMAIN a : a[j] = b[j]

\* obtain: the in-memory map, then the Store, then the Source
ResolutionOrder == <<"mem", "store", "source">>

\* what the call on top of task t's stack returns in this step
Returned(t) ==
  IF Len(stack[t]) = 1 THEN ev'.ret ELSE stack'[t][Len(stack[t]) - 1].ret

\* the call on top of task t's stack takes a step
Moved(t) ==
  \/ Len(stack'[t]) # Len(stack[t])
  \/ stack'[t][Len(stack[t])] # Top(t)

\* the call on top of task t's stack goes on: it returns, raises, makes a call
\* or moves to its next await
Acts(t) ==
  \/ Len(stack'[t]) # Len(stack[t])
  \/ stack'[t][Len(stack[t])].pc # Top(t).pc

\* C1: obtain(C, K) calls that overlap in time all return the same object,
\* and the Source constructor of (C, K) is called at most once (as long as no
\* call of it raised).
C1_SameReference ==
  /\ raced = {}
  /\ \A k \in Keys : srcFails[k] = 0 => srcCalls[k] <= 1

\* C2: over every interleaving of obtain, cache, cache_attribute and attribute
\* reads, the obtain calls of a cache never return two different objects for
\* one (C, K).
C2_OneLiveEntity == \A k \in Keys : Cardinality(obtained[k]) <= 1

\* C3: reads of e.a that overlap in time all receive the same memoized value,
\* and at most one of the reads that return has run the computation of e.a.
C3_SingleFlightRead ==
  /\ racedReads = {}
  /\ \A k \in Keys : compDone[k] <= 1

\* C4: an obtain(C, K) that starts after an instance was registered for
\* (C, K) returns that instance and does not call the Source constructor.
C4_ConstructedOnce ==
  ev.kind = "obtain" /\ ev.pre # 0 =>
    /\ ev.ret = <<ev.pre>>
    /\ "source" \notin Range(ev.trail)

\* C5: obtain asks the Store only after the in-memory map missed and the
\* Source only after the Store missed as well; an obtain that the Store
\* answered returns an object that is registered in the identity map and
\* associated with the cache, and made no Source call.
C5_ResolutionOrder ==
  /\ \A t \in Tasks : \A j \in DOMAIN stack[t] :
       LET f == stack[t][j]
       IN  f.op = "obtain" =>
             /\ IsPrefix(f.trail, ResolutionOrder)
             /\ f.pc \in {"get_wait", "get_done"} =>
                  f.trail = <<"mem", "store">>
             /\ f.pc \in {"src_wait", "ex_ret", "cached"} =>
                  f.trail = ResolutionOrder /\ ~f.found
  /\ ev.kind = "obtain" =>
       /\ IsPrefix(ev.trail, ResolutionOrder)
       /\ ev.trail = <<"mem", "store">> =>
            /\ id_map[ev.key] = ev.ret[1]
            /\ _cache(ev.ret[1]) = gen

C5_StoreHitReturned ==
  /\ ev.kind = "obtain"
  /\ ev.trail = <<"mem", "store">>
  /\ srcCalls[ev.key] = 0

\* C6: when obtain(C, K) returns x, x is the identity map's entry for (C, K),
\* the Store has a record for (C, K), and x is associated with this cache.
C6_ObtainPostcondition ==
  ev.kind = "obtain" =>
    /\ id_map[ev.key] = ev.ret[1]
    /\ ev.key \in db_ent
    /\ _cache(ev.ret[1]) = gen

\* after the cache was reopened on the same Store, a read of an attribute that
\* was read under the earlier cache computes nothing and returns an equal value
RereadAfterReopen(k) ==
  gen > 1 /\ prevVals[k] # {} =>
    /\ compCalls[k] = 0
    /\ \A v \in readVals[k] : IdentitiesOf(v) \in prevVals[k]

\* C7 (as claimed): two reads of an attribute under one cache invoke its
\* computation exactly once, and after a reopen on the same Store the read
\* returns an equal value without any computation.
C7_ComputedExactlyOnce ==
  \A k \in Keys :
    /\ reads[k] >= 2 => compCalls[k] = 1
    /\ RereadAfterReopen(k)

\* C7 (amended): under one cache at most one of the reads of an attribute
\* that return has invoked its computation, and a read that starts after
\* another read returned invokes none (a read that raised or was cancelled
\* memoizes nothing); after a reopen on the same Store the read returns an
\* equal value without any computation.
C7_ComputedAtMostOnce ==
  /\ \A k \in Keys :
       /\ compDone[k] <= 1
       /\ RereadAfterReopen(k)
  /\ ev.kind = "read" /\ ev.prior > 0 => "compute" \notin Range(ev.trail)

C7_RereadFromStore ==
  /\ gen = 2
  /\ ev.kind = "read"
  /\ prevVals[ev.key] # {}
  /\ "store" \in Range(ev.trail)
  /\ compCalls[ev.key] = 0

\* C8: a child obtained with obtain(Child, id) and the child with the same
\* identity inside the parent's attribute value are the same object, and the
\* value of a child's parent attribute is the parent registered in the cache.
C8_IdentityAcrossRelations ==
  /\ \A k \in Children : \A x \in obtained[k] : \A v \in readVals[ParentKey] :
       \A j \in DOMAIN v : okey[v[j]] = k => v[j] = x
  /\ ev.kind = "read" /\ ev.key \in Children => ev.ret = <<id_map[ParentKey]>>

\* a step of a cache(e) call up to the put: a hit returns the registered
\* object and changes nothing; a miss awaits the put and registers nothing yet
CacheStepToPut(t) ==
  LET f == Top(t)
      k == f.key
      n == Len(stack[t])
  IN  /\ f.pc = "start" /\ id_map[k] # 0 =>
           /\ Len(stack'[t]) = n - 1
           /\ Returned(t) = <<id_map[k]>>
           /\ UNCHANGED <<db, id_map, assoc>>
      /\ f.pc = "start" /\ id_map[k] = 0 =>
           /\ stack'[t][n].pc = "put_wait"
           /\ UNCHANGED <<db, id_map, assoc>>
      /\ f.pc = "put_wait" =>
           /\ k \in db_ent'
           /\ stack'[t][n].pc = "put_done"
           /\ UNCHANGED <<id_map, assoc>>

\* the step of a cache(e) call after the put: e is registered, associated
\* and returned
CacheStepRegister(t) ==
  LET f == Top(t)
      k == f.key
      n == Len(stack[t])
  IN  f.pc = "put_done" =>
        /\ k \in db_ent
        /\ id_map'[k] = f.obj
        /\ assoc'[f.obj] = gen
        /\ Len(stack'[t]) = n - 1
        /\ Returned(t) = <<f.obj>>

\* the call is ended from outside: the task is cancelled, or the Store fails
Aborted == ev'.err \in {"CancelledError", "StoreError"}

\* the cache(e) call on top of task t's stack takes a step of its own
CacheMoves(t) ==
  /\ stack[t] # <<>>
  /\ Top(t).op = "cache"
  /\ Moved(t)
  /\ ~Aborted

C11_OfflineContinuation ==
  /\ [](gen > 1 =>
         /\ \A k \in prevEnt : srcCalls[k] = 0
         /\ \A k \in Keys : prevSet[k] # {} =>
              /\ compCalls[k] = 0
              /\ \A v \in readVals[k] : IdentitiesOf(v) \in prevSet[k]
         /\ ev.kind = "raise" /\ ev.err = "SourceError" =>
              /\ ev.trail = <<"obtain">> => ev.key \notin prevEnt
              /\ ev.trail = <<"lookup">> => prevSet[ev.key] = {})
  /\ [][\A t \in Tasks :
         /\ stack[t] # <<>>
         /\ Top(t).op = "obtain"
         /\ Top(t).pc = "src_wait"
         /\ ~online
         /\ Acts(t)
         /\ ~Aborted
         => ev'.kind = "raise" /\ ev'.err = "SourceError"]_vars

C11_ServedOffline ==
  /\ gen = 2
  /\ ~online
  /\ ev.kind = "read"
  /\ "store" \in Range(ev.trail)
  /\ prevSet[ev.key] # {}
  /\ ev.ret # <<>>
  /\ \A j \in DOMAIN ev.ret : okey[ev.ret[j]] \in prevEnt
  /\ \A k \in Keys : srcCalls[k] = 0

\* a lock is held only by a call that is under way and has entered it
HeldByLiveCall(l) ==
  locks[l] # 0 =>
    \E j \in DOMAIN stack[locks[l]] :
      /\ LockOf(stack[locks[l]][j]) = l
      /\ stack[locks[l]][j].op \in {"obtain", "cache_attribute", "lookup"}
      /\ stack[locks[l]][j].pc # "lock"

WaitsForLock(t) == stack[t] # <<>> /\ Top(t).pc = "lock"

\* C12: a call that ends, by returning, by raising (the Source, the Store or
\* the computation failed, an assertion did) or by being cancelled,
\* holds none of the locks of obtain, cache_attribute and
\* cached_attribute_lookup any more, and a caller that waits for such a lock
\* gets it in the end (or is cancelled) and goes on with its own resolution.
C12_LockReleased ==
  /\ [](\A l \in LockIds : HeldByLiveCall(l))
  /\ \A t \in Tasks : WaitsForLock(t) ~> ~WaitsForLock(t)

C12_WaiterAfterFailure ==
  /\ ev.kind = "raise"
  /\ ev.err = "SourceError"
  /\ ev.trail = <<"obtain">>
  /\ \E u \in Tasks :
       /\ WaitsForLock(u)
       /\ LockOf(Top(u)) = ObtainLockKey(ev.key)
       /\ locks[LockOf(Top(u))] = 0

\* an obtain call that has not got an answer from the Store or the Source
OnTheWayToSource(f) ==
  \/ f.pc \in {"lock", "mem", "get_wait"}
  \/ f.pc = "get_done" /\ ~f.found
  \/ f.pc = "src_wait" /\ ~online

\* C13: an obtain(C, K) that found (C, K) neither in memory nor in the Store
\* and whose Source constructor fails ends with the Source's error at once,
\* without another Source call; up to and including the failure it adds
\* nothing to the identity map or the Store and changes no association, so
\* what was cached before stays as it was.
C13_SourceFailure ==
  [][\A t \in Tasks :
       stack[t] # <<>> /\ Top(t).op = "obtain" /\ Acts(t) /\ ~Aborted =>
         /\ OnTheWayToSource(Top(t)) => UNCHANGED <<id_map, field_map, db, assoc>>
         /\ Top(t).pc = "src_wait" /\ ~online =>
              /\ Top(t).trail = ResolutionOrder
              /\ stack'[t] = <<>>
              /\ ev'.kind = "raise"
              /\ ev'.err = "SourceError"
              /\ srcCalls' = srcCalls]_vars

C13_FailedWithOthersCached ==
  /\ ev.kind = "raise"
  /\ ev.err = "SourceError"
  /\ ev.trail = <<"obtain">>
  /\ id_map[ev.key] = 0
  /\ ev.key \notin db_ent
  /\ \E k \in Keys : id_map[k] # 0 /\ k \in db_ent

\* C14: the association cell of an entity goes from unassociated to one cache
\* at most once and never changes afterwards; when cache(e) comes to associate
\* an entity that has a cache already, the call raises AssertionError and the
\* cell keeps its value.
C14_AssociatedOnce ==
  [][/\ \A o \in DOMAIN assoc \cap DOMAIN assoc' :
          /\ _cache(o) # 0 => assoc'[o] = assoc[o]
          /\ _cache(o) = 0 => assoc'[o] \in {0, gen}
     /\ \A t \in Tasks :
          /\ Running(t, "cache", "put_done")
          /\ _cache(Top(t).obj) # 0
          /\ Acts(t)
          /\ ~Aborted
          => /\ ev'.kind = "raise"
             /\ ev'.err = "AssertionError"
             /\ ev'.arg = Top(t).obj
             /\ stack'[t] = <<>>]_vars

\* cache(e) of an entity that another cache gave out has raised, and e is
\* still associated with that cache
C14_ReassociationRaised ==
  /\ ev.kind = "raise"
  /\ ev.err = "AssertionError"
  /\ ev.arg \in DOMAIN assoc
  /\ _cache(ev.arg) = OtherCache
  /\ \E o \in DOMAIN assoc : _cache(o) = gen

\* C15: an entity the user made, once cache(e) has registered it, is the
\* cache's instance for its (C, K) and is associated with the cache; an obtain
\* that starts afterwards returns it without a Source call, and cache(e) once
\* more returns e and registers nothing.
C15_LateAssociation ==
  /\ \A o \in late : _cache(o) = gen /\ id_map[okey[o]] = o
  /\ ev.kind = "obtain" /\ ev.pre \in late =>
       /\ ev.ret = <<ev.pre>>
       /\ "source" \notin Range(ev.trail)
  /\ ev.kind = "cache" /\ ev.pre = 1 =>
       /\ ev.ret = <<ev.arg>>
       /\ ev.trail = <<"hit">>

\* cache(e) was awaited once more on a late-associated entity and returned
C15_PassedAgain ==
  /\ ev.kind = "cache"
  /\ ev.pre = 1
  /\ ev.arg \in late

\* C16: NoCache.obtain returns an object the Source constructor has just
\* built, on every call; NoCache.cache returns its argument and
\* NoCache.cache_attribute returns, both changing nothing;
\* NoCache.cached_attribute_lookup runs the computation on every call and
\* returns its result; none of them registers, associates, memoizes or stores
\* anything.
C16_NoCacheNoOps ==
  [][/\ \A t \in Tasks :
          /\ stack[t] # <<>>
          /\ Top(t).op \in {"nc_obtain", "nc_lookup"}
          /\ Acts(t)
          => /\ UNCHANGED <<mem, db>>
             /\ \A o \in DOMAIN assoc : assoc'[o] = assoc[o]
     /\ ev'.kind = "nc_obtain" =>
          /\ ev'.trail = <<"source">>
          /\ ev'.ret[1] \in DOMAIN okey' \ DOMAIN okey
          /\ okey'[ev'.ret[1]] = ev'.key
     /\ ev'.kind = "nc_cache" =>
          /\ ev'.ret = <<ev'.arg>>
          /\ UNCHANGED <<heap, mem, db>>
     /\ ev'.kind = "nc_cache_attribute" => UNCHANGED <<heap, mem, db>>
     /\ ev'.kind = "nc_lookup" => ev'.trail = <<"compute">>
     /\ ev'.kind \in {"nc_obtain", "nc_lookup"} =>
          \A x \in Range(ev'.ret) :
            /\ assoc'[x] = 0
            /\ \A k \in Keys : id_map'[k] # x
            /\ \A k \in Keys : x \notin Range(field_map'[k])]_vars

\* a read through NoCache has computed and returned a value while the open
\* cache has the entity's (C, K) registered and the attribute memoized
C16_ComputedNextToCache ==
  /\ ev.kind = "nc_lookup"
  /\ id_map[ev.key] # 0
  /\ field_map[ev.key] # NoVal
  /\ ev.ret # field_map[ev.key]

\* C17: an entity stays without a cache until a cache registers it; for such
\* an entity get_cache returns the NoCache object, of which there is one, also
\* after NoCache.cache(e) and after obtain calls on a cache.
C17_SharedNoCache ==
  /\ [](/\ ncMade <= 1
        /\ Cardinality(ncRet) <= 1
        /\ ev.kind = "get_cache" /\ _cache(ev.arg) = 0 =>
             /\ nc_instance # 0
             /\ ev.ret = <<-nc_instance>>
             /\ ev.ret = <<get_cache(ev.arg)>>)
  /\ [][\A o \in DOMAIN assoc \cap DOMAIN assoc' :
          _cache(o) = 0 /\ assoc'[o] # 0 =>
            /\ assoc'[o] = gen
            /\ id_map'[okey[o]] = o
          ]_vars

\* get_cache(e) has returned the NoCache object for an entity that had been
\* passed to NoCache.cache, with entities obtained through the open cache
C17_StillNoCache ==
  /\ ev.kind = "get_cache"
  /\ ev.pre = 1
  /\ ev.ret = <<-nc_instance>>
  /\ \E k \in Keys : obtained[k] # {}

\* C18: obtain(C, K) never goes on with, registers or returns an entity whose
\* class or identity is not the one asked for: every object a cache() call is
\* given, every object in the identity map and every object obtain returns
\* has the class and the identity it is held under.
C18_MismatchFatal ==
  /\ \A t \in Tasks : \A j \in DOMAIN stack[t] :
       stack[t][j].op = "cache" => okey[stack[t][j].obj] = stack[t][j].key
  /\ \A k \in Keys : id_map[k] # 0 => okey[id_map[k]] = k
  /\ ev.kind = "obtain" => okey[ev.ret[1]] = ev.key

\* C18 (the class): when Comment.__obtain__ returns an object of another
\* class, obtain raises AssertionError at once, with the identity map, the
\* Store and every association as they were and the key's lock free.
C18_WrongClassFatal ==
  [][\A t \in Tasks :
       /\ Running(t, "obtain", "src_wait")
       /\ ~IsParent(Top(t).key)
       /\ Acts(t)
       /\ Len(okey') = Len(okey) + 1
       /\ ClassOf(okey'[Len(okey')]) # ClassOf(Top(t).key)
       => /\ ev'.kind = "raise"
          /\ ev'.err = "AssertionError"
          /\ stack'[t] = <<>>
          /\ locks'[ObtainLockKey(Top(t).key)] = 0
          /\ assoc'[Len(okey')] = 0
          /\ UNCHANGED <<mem, db>>]_vars

\* an obtain has failed on an object of the wrong class, and its key is
\* neither registered nor stored
C18_WrongClassRaised ==
  /\ ev.kind = "raise"
  /\ ev.err = "AssertionError"
  /\ ev.trail = <<"obtain">>
  /\ id_map[ev.key] = 0
  /\ ev.key \notin db_ent
  /\ okey # <<>>
  /\ ClassOf(okey[Len(okey)]) # ClassOf(ev.key)

\* the value is a list
IsList(v) == v.root[1] = "node" /\ v.nodes[v.root[2]].ty = "list"

Bijections(n) ==
  {f \in [1..n -> 1..n] : \A a, b \in 1..n : a # b => f[a] # f[b]}

\* an item of the computed value as it is to come back: an entity as the
\* object registered for its identity, a container as its counterpart
MapItem(it, f) ==
  IF it[1] = "ent" THEN E(c_id_map[c_okey[it[2]]])
  ELSE IF it[1] = "node" THEN N(f[it[2]])
  ELSE it

\* w is v with every entity replaced by the registered one: the containers
\* of v and of w correspond one to one, with the same types and items
Iso(v, w) ==
  /\ Len(v.nodes) = Len(w.nodes)
  /\ \E f \in Bijections(Len(v.nodes)) :
       /\ MapItem(v.root, f) = w.root
       /\ \A i \in DOMAIN v.nodes :
            /\ w.nodes[f[i]].ty = v.nodes[i].ty
            /\ w.nodes[f[i]].items =
                 [j \in DOMAIN v.nodes[i].items |->
                    MapItem(v.nodes[i].items[j], f)]

C20_RoundTrip ==
  /\ [](c_phase = "done" => c_err = "" /\ Iso(c_val, c_res))
  /\ (c_phase \in {"pickle", "pass1"}) ~> (c_phase = "done")

\* (4, self, [self, <the list>]) was unpickled from the Store under a new
\* cache: the list holds itself, and the entity is the one obtained anew
C20_CycleFromStore ==
  /\ c_phase = "done"
  /\ c_mode = "store"
  /\ Len(c_res.nodes) = 2
  /\ \E i \in DOMAIN c_res.nodes :
       /\ c_res.nodes[i].ty = "list"
       /\ N(i) \in Range(c_res.nodes[i].items)
       /\ E(c_id_map[0]) \in Range(c_res.nodes[i].items)
  /\ c_id_map[0] > Len(CodecObjects)

\* ---- C21..C23: the Database ----

\* the outcome that Cache.obtain and cached_attribute_lookup take for a miss
MissOutcomes == {"RecordMissingError"}

\* C21 as claimed: a store whose first upsert met no table creates the table
\* and does the upsert exactly once more, whenever no statement of it failed
\* for another reason, and a store in which a statement failed for another
\* reason raises
C21_CreatedAndRetried ==
  d_ev.kind = "store" =>
    /\ (d_ev.missing /\ ~d_ev.fault) => (d_ev.created /\ d_ev.upserts = 2)
    /\ d_ev.fault => d_ev.err # ""

\* C21, what store does: once it has created the table it does the upsert
\* exactly once more and returns; when another store created the table first,
\* CREATE TABLE raises and the upsert is not done again; no store does more
\* than two upserts nor creates a table it did not miss; every other failure
\* of a statement is raised
C21_RetriedOnceAfterCreate ==
  d_ev.kind = "store" =>
    /\ d_ev.upserts <= 2
    /\ d_ev.created => d_ev.missing
    /\ (d_ev.created /\ ~d_ev.fault) => (d_ev.upserts = 2 /\ d_ev.err = "")
    /\ (d_ev.missing /\ ~d_ev.created) =>
         (d_ev.upserts = 1 /\ d_ev.err = "OperationalError")
    /\ ~d_ev.missing => d_ev.upserts <= 1
    /\ d_ev.fault => d_ev.err = "OperationalError"

\* a store found no table, created it, and stored the entity on the retry
C21_TableCreatedOnDemand ==
  /\ d_ev.kind = "store"
  /\ d_ev.missing
  /\ d_ev.created
  /\ d_ev.upserts = 2
  /\ d_ev.err = ""
  /\ <<d_ev.id, d_ev.text>> \in d_rows[d_ev.cls]

\* C22: a table never holds two rows of one identity; a store that returns
\* leaves the stored entity as the one row of its identity and every other
\* row of every table as it was; a retrieve that returns gives the row of the
\* identity; and a store of an entity raises only when one of its statements
\* failed or when it could not create the table
C22_IdempotentUpsert ==
  [][/\ \A c \in DbClasses : \A i \in DbIds :
          Cardinality(RowsOf(d_rows', c, i)) <= 1
     /\ \A t \in DbTasks :
          LET f == d_task[t] IN
          /\ (/\ f.pc \in {"upsert", "retry"}
              /\ d_ev'.kind = "store" /\ d_ev'.task = t /\ d_ev'.err = "") =>
                /\ RowsOf(d_rows', f.cls, f.id) = {<<f.id, f.text>>}
                /\ d_rows'[f.cls] \ {<<f.id, f.text>>}
                     = d_rows[f.cls] \ RowsOf(d_rows, f.cls, f.id)
                /\ \A c \in DbClasses \ {f.cls} : d_rows'[c] = d_rows[c]
          /\ (/\ f.pc = "select"
              /\ d_ev'.kind = "retrieve" /\ d_ev'.task = t /\ d_ev'.err = "") =>
                /\ RowsOf(d_rows, f.cls, f.id) = {<<f.id, d_ev'.text>>}
                /\ d_rows' = d_rows
     /\ (d_ev'.kind = "store" /\ d_ev'.err # "") =>
          (d_ev'.fault \/ (d_ev'.missing /\ ~d_ev'.created))]_vars

\* an entity stored twice, the first time into no table, is retrieved
C22_StoredTwiceRetrieved ==
  /\ d_ev.kind = "retrieve"
  /\ d_ev.err = ""
  /\ d_ev.cls = "Child"
  /\ d_puts[<<d_ev.cls, d_ev.id, d_ev.text>>] >= 2
  /\ Cardinality(d_rows[d_ev.cls]) = 1

\* C23 as claimed: a retrieve of an identity that has no row in the class's
\* table ends in the outcome that Cache.obtain takes for a miss
C23_AbsenceIsNotFound ==
  (d_ev.kind = "retrieve" /\ d_ev.table /\ d_ev.absent /\ ~d_ev.fault) =>
    d_ev.err \in MissOutcomes

\* C23, what retrieve does: with no row it raises TypeError, with no table
\* OperationalError as a failed statement does, and never the miss outcome
C23_AbsenceRaises ==
  d_ev.kind = "retrieve" =>
    /\ (d_ev.table /\ d_ev.absent /\ ~d_ev.fault) => d_ev.err = "TypeError"
    /\ (~d_ev.table \/ d_ev.fault) => d_ev.err = "OperationalError"
    /\ d_ev.err \notin MissOutcomes

\* a retrieve of an absent identity from an existing table raised TypeError
C23_AbsentRaisedTypeError ==
  /\ d_ev.kind = "retrieve"
  /\ d_ev.table
  /\ d_ev.absent
  /\ d_ev.err = "TypeError"

\* ---- C24: dataclass() ----

\* the identity names a name that is not a field of the class
NamesUnknownField ==
  \E n \in DOMAIN df_identity : df_identity[n] \notin df_fields

\* C24 as claimed: the definition of a class whose identity names a name
\* that is not one of its fields fails, whatever the fields
C24_UnknownKeyFails ==
  (df_res # "" /\ NamesUnknownField) => df_res = "AssertionError"

\* C24, what dataclass() does: with at least one field, the definition fails
\* exactly when the identity names a name that is not a field other than
\* _cache_holder; with no field it succeeds whatever the identity names
C24_UnknownKeyFailsWithFields ==
  df_res # "" =>
    /\ (df_fields # {} /\ NamesUnknownField) => df_res = "AssertionError"
    /\ df_fields # {} =>
         (df_res = "AssertionError" <=>
            \E n \in DOMAIN df_identity :
              df_identity[n] \notin all_field_names(df_fields))
    /\ df_fields = {} => df_res = "DataClass"

\* the class of test_nonconforming.py: one field id, identity (id, nonex)
C24_NonexRejected ==
  /\ df_fields = {"id"}
  /\ df_identity = <<"id", "nonex">>
  /\ df_res = "AssertionError"

\* ---- C25: the callers of obtain that wait for the key's lock ----

\* the obtain(k) frames that are past the lock
Resolving(k) ==
  {p \in UNION {{<<t, j>> : j \in DOMAIN stack[t]} : t \in Tasks} :
     /\ stack[p[1]][p[2]].op = "obtain"
     /\ stack[p[1]][p[2]].key = k
     /\ stack[p[1]][p[2]].pc # "lock"}

\* C25: at most one obtain(C, K) call is past the key's lock at a time, and
\* it asks each of the in-memory map, the Store and the Source at most once;
\* a caller during whose call another obtain(C, K) returned has not asked
\* the Store or the Source, and when it gets the lock it returns the entry
\* of the identity map in that step, with no Store query and no Source call
C25_WaitersReadMemory ==
  [][/\ \A k \in Keys : Cardinality(Resolving(k)') <= 1
     /\ \A t \in Tasks : \A j \in DOMAIN stack[t] :
          stack[t][j].op = "obtain" =>
            /\ IsPrefix(stack[t][j].trail, ResolutionOrder)
            /\ stack[t][j].seen # {} =>
                 /\ stack[t][j].pc \in {"lock", "mem"}
                 /\ stack[t][j].trail = <<>>
     /\ \A t \in Tasks :
          (/\ stack[t] # <<>>
           /\ Top(t).op = "obtain"
           /\ Top(t).pc = "mem"
           /\ Top(t).seen # {}
           /\ Moved(t)
           /\ ~Aborted) =>
             /\ Len(stack'[t]) = Len(stack[t]) - 1
             /\ Returned(t) = <<id_map[Top(t).key]>>
             /\ UNCHANGED <<mem, db, histSrc>>]_vars

\* an obtain that found nothing registered when it was called has waited
\* while another caller asked the Source, and returned from memory
C25_WaiterServedFromMemory ==
  /\ ev.kind = "obtain"
  /\ ev.pre = 0
  /\ ev.trail = <<"mem">>
  /\ srcCalls[ev.key] = 1
  /\ db_ent = {ev.key}

\* ---- C26: cache_attribute and the instances of the value ----

\* the cache_attribute call on top of task t's stack stores its mapping
Memoizes(t) ==
  /\ stack[t] # <<>>
  /\ Top(t).op = "cache_attribute"
  /\ Top(t).pc = "store"
  /\ Moved(t)
  /\ ~Aborted

\* C26 as claimed: for every fresh instance of the force-set value, the
\* memoized value holds the instance that was registered for its (class,
\* identity) when cache_attribute began, and if none was, the fresh instance,
\* which is then the identity map's entry
C26_ForceSetCanonical ==
  [][\A t \in Tasks : Memoizes(t) =>
       LET f == Top(t) IN
       \A j \in DOMAIN f.val :
         /\ f.reg[j] # 0 => field_map'[f.key][j] = f.reg[j]
         /\ f.reg[j] = 0 =>
              /\ field_map'[f.key][j] = f.val[j]
              /\ id_map'[okey[f.val[j]]] = f.val[j]]_vars

\* C26, what cache_attribute does: the memoized value holds, for every
\* instance of the force-set value, the identity map's entry for its (class,
\* identity) at the time of decoding, an instance of that (class, identity),
\* and never the fresh instance when another was registered
C26_MemoizedFromIdentityMap ==
  [][\A t \in Tasks : Memoizes(t) =>
       LET f == Top(t) IN
       /\ Len(field_map'[f.key]) = Len(f.val)
       /\ \A j \in DOMAIN f.val :
            /\ field_map'[f.key][j] = id_map[okey[f.val[j]]]
            /\ okey[field_map'[f.key][j]] = okey[f.val[j]]
            /\ f.reg[j] # 0 => field_map'[f.key][j] # f.val[j]]_vars

\* a Post was obtained whose comment had been obtained before: its force-set
\* comments hold the Comment that was registered, not the fresh one
C26_RegisteredInstanceKept ==
  \E k \in Keys :
    /\ IsParent(k)
    /\ forced[k] # {}
    /\ field_map[k] # NoVal
    /\ Len(field_map[k]) > 0
    /\ field_map[k][1] \in obtained[okey[field_map[k][1]]]
    /\ compCalls[k] = 0
    /\ srcCalls[okey[field_map[k][1]]] = 1

\* ---- C27: what pickle_and_reduce_to_identities collects ----

\* how many times entity object o occurs in value v: as the value itself and
\* as an item of its containers
Occurrences(v, o) ==
  Cardinality({p \in UNION {{<<i, j>> : j \in DOMAIN v.nodes[i].items} :
                                i \in DOMAIN v.nodes} :
                 v.nodes[p[1]].items[p[2]] = E(o)})
  + (IF v.root = E(o) THEN 1 ELSE 0)

\* encode is done and the association loop runs on what it collected
Encoded == c_phase = "associate"

\* C27 as claimed: no (entity, identity) pair is collected twice
C27_CollectedDistinct ==
  Encoded =>
    \A i, j \in DOMAIN c_coll : i # j => c_coll[i] # c_coll[j]

\* C27 (amended): an entity is collected, with its identity, once for each
\* time it occurs in the value, a container that occurs several times or
\* holds itself being walked once; and the cache() call made for an entity
\* that was collected before changes nothing in the identity map
C27_CollectedPerOccurrence ==
  /\ [](Encoded =>
         /\ \A i \in DOMAIN c_coll :
              c_coll[i] = <<c_coll[i][1], c_okey[c_coll[i][1]]>>
         /\ \A o \in DOMAIN c_okey :
              Cardinality({i \in DOMAIN c_coll : c_coll[i][1] = o})
                = Occurrences(c_val, o))
  /\ [][(/\ Encoded
          /\ c_i' = c_i + 1
          /\ \E j \in 1..(c_i - 1) : c_coll[j] = c_coll[c_i])
         => c_id_map' = c_id_map]_vars

\* [self, self]: the entity was collected twice and cache() called twice
C27_CollectedTwice ==
  /\ Encoded
  /\ c_i > Len(c_coll)
  /\ Len(c_coll) = 2
  /\ c_coll[1] = c_coll[2]
  /\ c_id_map[c_coll[1][2]] = c_coll[1][1]

\* ---- C28: the identity-map lookups of decode pass 2 ----

\* C28: no call ends with the KeyError of _obtain_mapped; when pass 2 runs,
\* every (class, identity) of the data was collected in pass 1 and has an
\* entry in the identity map, and pass 2 returns these entries
C28_Pass2NeverFails ==
  /\ [](ev.err # "KeyError")
  /\ [][\A t \in Tasks :
          (/\ Running(t, "unpickle", "inter")
           /\ Top(t).i > Len(collect_identities(Top(t).data))
           /\ Moved(t)
           /\ ~Aborted) =>
             /\ \A j \in DOMAIN Top(t).data :
                  /\ Top(t).data[j] \in Range(collect_identities(Top(t).data))
                  /\ obtain_mapped(Top(t).data[j]) # 0
             /\ Returned(t) = reconstruct(Top(t).data)]_vars

\* a reopened cache decoded an attribute from the Store: the entity of the
\* value was obtained between the passes and pass 2 found it
C28_DecodedFromStore ==
  /\ ev.kind = "read"
  /\ gen > 1
  /\ "compute" \notin Range(ev.trail)
  /\ "store" \in Range(ev.trail)
  /\ ev.ret # <<>>
  /\ \A j \in DOMAIN ev.ret : id_map[okey[ev.ret[j]]] = ev.ret[j]

\* ---- C30: the attribute map and the attribute records of the Store ----

\* no cache_attribute or cached_attribute_lookup call on key k is in flight
AttrQuiet(k) ==
  \A t \in Tasks : \A j \in DOMAIN stack[t] :
    ~(IsAttrOp(stack[t][j]) /\ stack[t][j].key = k)

\* C30 as claimed: whenever the attribute map has a value for a key and no
\* call on the key is in flight, the Store has a blob for the key, and the
\* blob names the (class, identity) of every entity of that value, in order
C30_StoreMirrorsMemory ==
  \A k \in Keys :
    (field_map[k] # NoVal /\ AttrQuiet(k)) =>
      /\ db_attr[k] # NoBlob
      /\ db_attr[k] = IdentitiesOf(field_map[k])

\* C30, what the two calls do: whenever the attribute map has a value for a
\* key the Store has a blob for the key; and a call memoizes the decoded form
\* of the blob that it has itself put or read, whatever the Store holds for
\* the key by then
C30_MemoizedAfterStored ==
  /\ [](\A k \in Keys : field_map[k] # NoVal => db_attr[k] # NoBlob)
  /\ [][\A t \in Tasks :
          (/\ stack[t] # <<>>
           /\ IsAttrOp(Top(t))
           /\ Top(t).pc = "store"
           /\ Moved(t)
           /\ ~Aborted) =>
             /\ field_map'[Top(t).key] = Top(t).ret
             /\ IdentitiesOf(Top(t).ret) = Top(t).data
             /\ db_attr[Top(t).key] # NoBlob]_vars

\* a force-set value is memoized and its blob is the one in the Store
C30_ForceSetMirrored ==
  /\ ev.kind = "cache_attribute"
  /\ field_map[ev.key] # NoVal
  /\ Len(field_map[ev.key]) > 0
  /\ db_attr[ev.key] = IdentitiesOf(field_map[ev.key])

\* ---- C29: the lock manager ----

\* C29: a lookup of key k returns a lock without waiting for anything; it
\* returns the lock that an earlier lookup of k returned whenever a task
\* still holds or waits on that lock, a lock is only ever returned for one
\* key, and a new lock is created only when the key has no entry
C29_OneLockPerKey ==
  /\ [](\A l \in DOMAIN w_keys : Cardinality(w_keys[l]) = 1)
  /\ [](\A k \in HashKeys :
          Cardinality({l \in DOMAIN w_keys :
                         k \in w_keys[l] /\ Referents(l) # {}}) <= 1)
  /\ [][w_ev'.task # 0 /\ w_ev' # w_ev =>
          /\ w_ev'.lock # 0
          /\ w_ref'[w_ev'.task] = w_ev'.lock
          /\ \A l \in DOMAIN w_keys :
               (w_ev'.key \in w_keys[l] /\ Referents(l) # {}) =>
                 w_ev'.lock = l
          /\ w_ev'.was # 0 => w_ev'.lock = w_ev'.was]_vars

\* a task looked up a key whose lock another task holds and got that lock,
\* after an earlier lock of the same key had been collected
C29_SameLockWhileHeld ==
  /\ w_ev.task # 0
  /\ Cardinality(Referents(w_ev.lock)) = 2
  /\ Cardinality({l \in DOMAIN w_keys : w_ev.key \in w_keys[l]}) = 2
  /\ \E k \in HashKeys \ {w_ev.key} : w_data[k] # 0

\* ---- C31: fixed-arity tuple return types ----

\* the annotation is a tuple annotation other than tuple[T, ...]
FixedArity(ra) ==
  /\ ra.origin = "tuple"
  /\ ~(Len(ra.args) = 2 /\ ra.args[2] = "Ellipsis")

\* C31 (as stated): an awaitable property declared with a fixed-arity tuple
\* is rejected with a TypeError: neither its definition nor a read of it
\* goes through, and inspecting its return type raises TypeError
C31_FixedTupleRejected ==
  (r_ev.op # "" /\ FixedArity(r_ann)) => r_ev.res.out = "TypeError"

\* C31 (what the code does): inspect_return_type raises TypeError for a
\* tuple annotation with arguments that is not tuple[T, ...] and ValueError
\* for one without arguments, gives (True, T) for tuple[T, ...] and
\* (False, ra) for every other annotation; defining and reading the
\* property never consult it and go through whatever the annotation is
C31_InspectClassifies ==
  /\ r_ev.op \in {"define", "read"} => r_ev.res.out = "return"
  /\ r_ev.op = "inspect" /\ r_ann # NoAnnotation =>
       /\ (FixedArity(r_ann) /\ r_ann.args # <<>>) =>
             r_ev.res.out = "TypeError"
       /\ (FixedArity(r_ann) /\ r_ann.args = <<>>) =>
             r_ev.res.out = "ValueError"
       /\ (r_ann.origin = "tuple" /\ ~FixedArity(r_ann)) =>
             r_ev.res = Outcome("return", TRUE, Plain(r_ann.args[1]))
       /\ r_ann.origin # "tuple" => r_ev.res = Outcome("return", FALSE, r_ann)

\* inspect_return_type raised TypeError for tuple[Self, Self]
C31_PairRejectedByInspect ==
  /\ r_ann = Generic("tuple", <<"Self", "Self">>)
  /\ r_ev.op = "inspect"
  /\ r_ev.res.out = "TypeError"

\* ---- C32: mutual exclusion with weakly held locks ----

\* C32: no two tasks are inside the locked section of the same key at the
\* same time, although the entry of a key whose lock nobody references may
\* be collected and made anew at any moment
C32_OneTaskPerKeyInside ==
  \A t \in w_in : \A u \in w_in : (t # u) => (w_key[t] # w_key[u])

\* a task is inside the section of a key under the key's second lock (the
\* first was collected), another task waits on that lock, and a third task
\* is inside the section of another key
C32_InsideUnderRecreatedLock ==
  \E t \in w_in : \E u \in LockTasks \ w_in : \E v \in w_in :
    /\ w_ref[u] = w_ref[t]
    /\ w_key[u] = w_key[t]
    /\ w_key[v] # w_key[t]
    /\ Cardinality({l \in DOMAIN w_keys : w_key[t] \in w_keys[l]}) = 2

\* ---- C33: identity-map entries are stable ----

\* task t is between the in-memory check and the registration of key k
Registering(t, k) ==
  /\ stack[t] # <<>>
  /\ Top(t).key = k
  /\ \/ Top(t).op = "cache" /\ Top(t).pc \in {"put_wait", "put_done"}
     \/ Top(t).op = "obtain" /\ Top(t).pc \in {"get_wait", "get_done"}

\* C33 (as stated): while the cache is open an identity-map entry, once
\* set, is neither removed nor replaced by another object
C33_EntryNeverReplaced ==
  [][gen' = gen =>
       \A k \in Keys : id_map[k] # 0 => id_map'[k] = id_map[k]]_vars

\* C33 (what the code keeps): while the cache is open an entry is never
\* removed, and it is replaced only by the registration of a call that made
\* its in-memory check before the entry was set (the end of cache() after
\* its put, or the Store hit of obtain)
C33_EntryNeverRemoved ==
  [][gen' = gen =>
       \A k \in Keys :
         id_map[k] # 0 =>
           /\ id_map'[k] # 0
           /\ id_map'[k] # id_map[k] =>
                \E t \in Tasks :
                  /\ Registering(t, k)
                  /\ Top(t).pc \in {"put_done", "get_done"}
                  /\ stack'[t] # stack[t]]_vars

\* an entry is set while a cache() call and an obtain of its key are both
\* suspended on the Store, past their in-memory checks
C33_EntrySetUnderBoth ==
  \E k \in Keys : \E t \in Tasks : \E u \in Tasks :
    /\ id_map[k] # 0
    /\ Registering(t, k) /\ Top(t).op = "cache"
    /\ Registering(u, k) /\ Top(u).op = "obtain"

\* ---- C34: cache_attribute against cached_attribute_lookup ----

\* task t has a call op of key k that is inside its `async with` block
InsideAttr(t, op, k) ==
  \E j \in DOMAIN stack[t] :
    /\ stack[t][j].op = op
    /\ stack[t][j].key = k
    /\ stack[t][j].pc # "lock"

\* task t has a call op of key k that waits for its lock
WaitsAttr(t, op, k) ==
  /\ stack[t] # <<>>
  /\ Top(t).op = op
  /\ Top(t).key = k
  /\ Top(t).pc = "lock"

\* C34 (as stated): a cache_attribute call and a cached_attribute_lookup
\* call of the same (class, identity, attrname) are never inside their locked
\* sections at the same time
C34_ForceSetExcludesLookup ==
  \A k \in Keys : \A t \in Tasks : \A u \in Tasks :
    ~(InsideAttr(t, "cache_attribute", k) /\ InsideAttr(u, "lookup", k))

\* C34 (what the locks give): two cache_attribute calls of one key are never
\* inside their sections together, and neither are two
\* cached_attribute_lookup calls of one key
C34_SameCallSerialized ==
  \A k \in Keys : \A t \in Tasks : \A u \in Tasks :
    t # u =>
      /\ ~(InsideAttr(t, "cache_attribute", k)
             /\ InsideAttr(u, "cache_attribute", k))
      /\ ~(InsideAttr(t, "lookup", k) /\ InsideAttr(u, "lookup", k))

\* a cache_attribute call waits for the lock that another cache_attribute
\* call of its key holds and that is past its Store write
C34_ForceSetWaitsForForceSet ==
  \E k \in Keys : \E t \in Tasks : \E u \in Tasks :
    /\ InsideAttr(t, "cache_attribute", k)
    /\ db_attr[k] # NoBlob
    /\ field_map[k] = NoVal
    /\ WaitsAttr(u, "cache_attribute", k)

\* ---- C35: what is registered is in the Store ----

\* C35 (as stated): every (class, identity) that has an identity-map entry
\* has an entity record in the Store
C35_RegisteredKeysStored ==
  \A k \in Keys : id_map[k] # 0 => k \in db_ent

\* C35 (what the code keeps): every registered object has its record in the
\* Store, under the identity its own fields give
C35_RegisteredObjectsStored ==
  \A k \in Keys : id_map[k] # 0 => okey[id_map[k]] \in db_ent

\* an object is registered after its put, under the key it was asked for,
\* while another cache() call is still waiting for its put
C35_RegisteredAfterPut ==
  \E k \in Keys : \E t \in Tasks :
    /\ id_map[k] # 0
    /\ okey[id_map[k]] = k
    /\ k \in db_ent
    /\ stack[t] # <<>>
    /\ Top(t).op = "cache"
    /\ Top(t).pc = "put_wait"
    /\ okey[Top(t).obj] \notin db_ent

\* ---- C36: a blob's entities are in the Store before the blob ----

\* task t decodes a blob and the obtain of one of its entities is at pc
DecodeObtainAt(t, pcs) ==
  \E j \in DOMAIN stack[t] :
    /\ j > 1
    /\ stack[t][j].op = "obtain"
    /\ stack[t][j - 1].op = "unpickle"
    /\ stack[t][j].pc \in pcs

\* C36 (as stated): every (class, identity) that an attribute blob of the
\* Store names has its entity record in the Store, and no decoding of a
\* blob asks the Source
C36_BlobEntitiesStored ==
  /\ \A k \in Keys :
       db_attr[k] # NoBlob => Range(db_attr[k]) \subseteq db_ent
  /\ \A t \in Tasks : ~DecodeObtainAt(t, {"src_wait"})

\* C36 (what the code keeps): when a blob is written, every (class,
\* identity) it names is registered in the identity map, and it has its
\* record in the Store if the registered object is of that identity
C36_BlobEntitiesRegistered ==
  [][\A k \in Keys :
       db_attr'[k] # db_attr[k] =>
         \A j \in DOMAIN db_attr'[k] :
           /\ id_map[db_attr'[k][j]] # 0
           /\ okey[id_map[db_attr'[k][j]]] = db_attr'[k][j] =>
                db_attr'[k][j] \in db_ent]_vars

\* a reopened cache decodes a stored blob: the obtain of one of its
\* entities found the record in the Store
C36_DecodedAfterReopen ==
  /\ gen > 1
  /\ \E t \in Tasks : \E j \in DOMAIN stack[t] :
       /\ j > 1
       /\ stack[t][j].op = "obtain"
       /\ stack[t][j - 1].op = "unpickle"
       /\ stack[t][j].pc = "get_done"
       /\ stack[t][j].found
       /\ stack[t][j].key \in Range(db_attr[stack[t][j - 1].key])

\* ---- C37: association and registration ----

\* C37 (as stated): an object is associated with the open cache exactly
\* when it is the identity-map entry of its (class, identity)
C37_AssociatedIffRegistered ==
  \A o \in DOMAIN okey :
    okey[o] \in Keys => ((_cache(o) = gen) <=> (id_map[okey[o]] = o))

\* C37 (what the code keeps): every registered object is associated with
\* some cache, and an object becomes associated with the open cache only in
\* the step that registers it
C37_AssociatedWhenRegistered ==
  /\ [](\A k \in Keys : id_map[k] # 0 => _cache(id_map[k]) # 0)
  /\ [][\A o \in DOMAIN okey' :
          /\ assoc'[o] = gen
          /\ gen' = gen
          /\ (o \in DOMAIN okey => assoc[o] # gen)
          => \E k \in Keys : id_map'[k] = o /\ id_map[k] # o]_vars

\* a reopened cache has registered and associated an object it built from a
\* Store record, and the user holds an entity that has no cache
C37_RegisteredFromStore ==
  /\ gen > 1
  /\ ev.kind = "obtain"
  /\ ev.trail = <<"mem", "store">>
  /\ id_map[ev.key] = ev.ret[1]
  /\ _cache(ev.ret[1]) = gen
  /\ \E o \in DOMAIN assoc : _cache(o) = 0

\* ---- C38: nested locks do not deadlock ----

\* task t waits for lock l
WaitsOn(t, l) ==
  /\ stack[t] # <<>>
  /\ Top(t).pc = "lock"
  /\ LockOf(Top(t)) = l

\* C38: with the Sources of the tests, every call that has started returns
\* or raises in the end, whatever the interleaving: no set of tasks waits
\* for each other's locks for ever
C38_EveryCallEnds ==
  \A t \in Tasks : (stack[t] # <<>>) ~> (stack[t] = <<>>)

\* a task holds the obtain lock of the Post and, inside the cache_attribute
\* of __obtain_ex__, the lock of its comments, and waits for the obtain lock
\* of a Comment that another task holds
C38_HoldsTwoWaitsForThird ==
  \E t \in Tasks : \E u \in Tasks : \E c \in Keys :
    /\ ~IsParent(c)
    /\ locks[ObtainLockKey(ParentKey)] = u
    /\ locks[CacheAttributeLockKey(ParentKey)] = u
    /\ WaitsOn(u, ObtainLockKey(c))
    /\ locks[ObtainLockKey(c)] = t

\* ---- C39: cache(e) of an entity of another cache ----

\* the last step made cache(e) raise because e has a cache already
ReassociationFailed ==
  /\ ev.kind = "raise"
  /\ ev.err = "AssertionError"
  /\ ev.trail = <<"cache">>
  /\ ev.arg \in DOMAIN assoc
  /\ _cache(ev.arg) = OtherCache

\* the cache(e) call of task t, e being of another cache, takes a step
ForeignCacheMoves(t, pc) ==
  /\ Running(t, "cache", pc)
  /\ _cache(Top(t).obj) = OtherCache
  /\ Acts(t)
  /\ ~Aborted

\* C39 (as stated): a cache(e) call that fails because e is associated with
\* another cache leaves e unregistered, and its put writes nothing to the
\* Store
C39_FailedCacheUnchanged ==
  /\ [](ReassociationFailed => id_map[ev.key] # ev.arg)
  /\ [][\A t \in Tasks :
          ForeignCacheMoves(t, "put_wait") => db_ent' = db_ent]_vars

\* C39 (what the code does): the call puts e's record, then registers e
\* under its key, and only then raises AssertionError; e keeps its cache,
\* and no other entry, record or memoized attribute changes
C39_RegisteredThenRaised ==
  [][\A t \in Tasks :
       /\ ForeignCacheMoves(t, "put_wait") =>
            /\ db_ent' = db_ent \cup {okey[Top(t).obj]}
            /\ UNCHANGED <<id_map, field_map, db_attr, assoc>>
       /\ ForeignCacheMoves(t, "put_done") =>
            /\ id_map' = [id_map EXCEPT ![Top(t).key] = Top(t).obj]
            /\ ev'.kind = "raise"
            /\ ev'.err = "AssertionError"
            /\ okey[Top(t).obj] \in db_ent
            /\ UNCHANGED <<field_map, db_ent, db_attr, assoc>>]_vars

\* cache(e) has raised on an entity of another cache; e is the failing
\* cache's entry for its key and has a record in its Store
C39_RaisedAndRegistered ==
  /\ ReassociationFailed
  /\ id_map[ev.key] = ev.arg
  /\ okey[ev.arg] \in db_ent

\* ---- C40: a computation that raises ----

\* the read of task t is in its computation (res = await coroutine_func(obj))
Computing(t) ==
  /\ stack[t] # <<>>
  /\ stack[t][1].op = "lookup"
  /\ stack[t][1].pc \in {"comp_wait", "comp_ret"}

\* C40: a read whose computation raises ends with the computation's error,
\* writes no attribute-map entry and no blob, and releases its lock; a
\* later read that finds the attribute neither in memory nor in the Store
\* runs the computation again
C40_FailureNotMemoized ==
  /\ [][\A t \in Tasks :
          (Computing(t) /\ stack'[t] = <<>> /\ ~Aborted) =>
            /\ ev'.kind = "raise"
            /\ ev'.task = t
            /\ ev'.err = "SourceError"
            /\ ev'.key = stack[t][1].key
            /\ field_map' = field_map
            /\ db_attr' = db_attr
            /\ locks'[LookupLockKey(stack[t][1].key)] = 0]_vars
  /\ [][\A t \in Tasks :
          (/\ Running(t, "lookup", "get_done")
           /\ ~Top(t).found
           /\ Acts(t)
           /\ ~Aborted) =>
            /\ compCalls'[Top(t).key] = compCalls[Top(t).key] + 1
            /\ stack'[t][1].pc \in {"comp_wait", "comp_ret"}]_vars

\* the computation of an attribute has raised for the second time: the
\* first read of it failed the same way, and nothing is memoized
C40_ComputedAgainAfterFailure ==
  /\ ev.kind = "raise"
  /\ ev.err = "SourceError"
  /\ ev.trail = <<"lookup">>
  /\ gen = 1
  /\ nops = 3
  /\ \A t \in Tasks : stack[t] = <<>>
  /\ compCalls[ev.key] = 2
  /\ compDone[ev.key] = 0
  /\ field_map[ev.key] = NoVal
  /\ db_attr[ev.key] = NoBlob

====
